---- MODULE Spec2Model ----
(***************************************************************************)
(* Model of the kit-tracking dashboard: the reconciliation pipeline of     *)
(* pages/single_month_merger.py (parse_contents, handle_uploads,           *)
(* merge_data, generate_alerts) and the login gate of app.py               *)
(* (display_page, authenticate).                                           *)
(*                                                                         *)
(* A CSV file is a grid: a sequence of rows, each a sequence of cell       *)
(* strings, as pd.read_csv(header=None) sees it.  A filename is a sequence *)
(* of characters.  Python's None is the empty tuple <<>> and a present     *)
(* value x is <<x>>.  A Timestamp is [year, month, day]; the string        *)
(* "YYYY-MM-DD" is the tuple <<YYYY, MM, DD>>.                             *)
(***************************************************************************)
EXTENDS Integers, Sequences, FiniteSets, TLC

VARIABLES
    now_year,                \* datetime.datetime.now().year
    upload_outbound_data,    \* dcc.Upload 'upload-outbound-data': contents, filename
    upload_inbound_data,     \* dcc.Upload 'upload-inbound-data': contents, filename
    outbound_data_store,     \* dcc.Store 'outbound-data-store'
    inbound_data_store,      \* dcc.Store 'inbound-data-store'
    merged_data_store,       \* dcc.Store 'merged-data-store'
    merge_status,            \* 'merge-status' children
    outbound_upload_status,  \* 'outbound-upload-status' children
    inbound_upload_status,   \* 'inbound-upload-status' children
    merge_pending,           \* merge_data has been triggered and has not run yet
    contents,                \* the file handed to parse_contents (pure runs)
    filename,                \* its filename
    run1,                    \* result of the first parse_contents run
    run2,                    \* result of the second run on the same bytes
    alert_threshold_input,   \* dcc.Input 'alert-threshold-input': value
    unused_kit_alerts,       \* 'unused-kit-alerts' children
    url_pathname,            \* dcc.Location 'url': pathname
    login_status,            \* dcc.Store 'login-status' (session storage)
    page_content,            \* 'page-content' children
    navbar_style,            \* 'navbar-container' style: its display
    login_message,           \* 'login-message' children
    login_button_n_clicks,   \* 'login-button' n_clicks
    password_input,          \* 'password-input' value
    display_pending          \* display_page has been triggered and has not run yet

vars == <<now_year, upload_outbound_data, upload_inbound_data,
          outbound_data_store, inbound_data_store, merged_data_store,
          merge_status, outbound_upload_status, inbound_upload_status,
          merge_pending, contents, filename, run1, run2,
          alert_threshold_input, unused_kit_alerts,
          url_pathname, login_status, page_content, navbar_style,
          login_message, login_button_n_clicks, password_input, display_pending>>

appVars == <<upload_outbound_data, upload_inbound_data,
             outbound_data_store, inbound_data_store, merged_data_store,
             merge_status, outbound_upload_status, inbound_upload_status,
             merge_pending>>

parseVars == <<contents, filename, run1, run2>>

alertVars == <<alert_threshold_input, unused_kit_alerts>>

loginVars == <<url_pathname, login_status, page_content, navbar_style,
               login_message, login_button_n_clicks, password_input, display_pending>>

None == <<>>
Some(x) == <<x>>

-----------------------------------------------------------------------------
(* Bounds of the model. *)

\* Largest number of data rows in a generated file.
MaxRows == 2

-----------------------------------------------------------------------------
(* Generic helpers. *)

Range(s) == {s[i] : i \in 1..Len(s)}

SeqsUpTo(S, n) == UNION {[1..k -> S] : k \in 0..n}

RECURSIVE SumSeq(_)
SumSeq(s) == IF s = <<>> THEN 0 ELSE Head(s) + SumSeq(Tail(s))

RECURSIVE FlattenSeq(_)
FlattenSeq(ss) == IF ss = <<>> THEN <<>> ELSE Head(ss) \o FlattenSeq(Tail(ss))

\* Python's ordering of the strings the model uses (code-point order).
StrOrder == <<"ACD", "Blue", "DTC Channel", "Lav", "Loc A", "Loc B", "Red", "SST">>

StrRank(s) == CHOOSE i \in 1..Len(StrOrder) : StrOrder[i] = s

TsLess(a, b) ==
    \/ a.year < b.year
    \/ a.year = b.year /\ a.month < b.month
    \/ a.year = b.year /\ a.month = b.month /\ a.day < b.day

-----------------------------------------------------------------------------
(* The kit catalog. *)

TubeTypes == <<"ACD", "Blue", "Lav", "SST">>

kit_to_tube(kit) ==
    CASE kit = "MNT & Telomere Kit (2 ACD, 1 Blue Sodium Citrate)" ->
             [ACD |-> 2, Blue |-> 1]
      [] kit = "MNT Kit Only (2 ACD)" -> [ACD |-> 2]
      [] kit = "MTHFR Kit (1 Blue Sodium Citrate)" -> [Blue |-> 1]
      [] kit = "Telomere Kit (1 Blue Sodium Citrate)" -> [Blue |-> 1]
      [] kit = "Tube - ACD (8.5 mL) Yellow Tops" -> [ACD |-> 1]
      [] kit = "Tube - Lt. Blue (3mL) Telo/MTHFR-Sodium Citrate" -> [Blue |-> 1]
      [] kit = "Tube - SST (7.5 mL) Tiger Top" -> [SST |-> 1]
      [] kit = "MNT & Tel. 1 Blue Sor" -> [ACD |-> 2, Blue |-> 1]
      [] kit = "MNT Kit O" -> [ACD |-> 2]
      [] kit = "Tube - ACD Tube" -> [ACD |-> 1]
      [] kit = "Tube - Lt. LTtube" -> [Blue |-> 1]
      [] kit = "-SST MNT Kit Only (2 ACD)" -> [SST |-> 1, ACD |-> 2]
      [] OTHER -> [x \in {} |-> 0]

\* `kit_desc in kit_to_tube`
KitInCatalog(kit) == DOMAIN kit_to_tube(kit) # {}

-----------------------------------------------------------------------------
(* Filename tests: `"out_" in filename`, `filename.endswith(".csv")`. *)

StrContains(name, sub) ==
    \E i \in 0..(Len(name) - Len(sub)) :
        \A j \in 1..Len(sub) : name[i + j] = sub[j]

StrEndsWith(name, suffix) ==
    /\ Len(name) >= Len(suffix)
    /\ \A j \in 1..Len(suffix) : name[Len(name) - Len(suffix) + j] = suffix[j]

OUT_ == <<"o", "u", "t", "_">>
IN_ == <<"i", "n", "_">>
DOT_CSV == <<".", "c", "s", "v">>

-----------------------------------------------------------------------------
(* Conversions of cell text. *)

\* float(s) for the numeric strings of the model; every other string is not
\* a number (float() raises ValueError, pd.to_numeric coerces to NaN).
NumericTable ==
    "0" :> 0 @@ "1" :> 1 @@ "2" :> 2 @@ "3" :> 3 @@ "5" :> 5 @@ "7" :> 7 @@
    "-1" :> -1 @@ "1.00" :> 1 @@ "2.00" :> 2 @@ "13.00" :> 13 @@ "-1.00" :> -1

\* pd.to_numeric(col, errors='coerce').fillna(0)
to_numeric_fillna0(s) == IF s \in DOMAIN NumericTable THEN NumericTable[s] ELSE 0

\* int(col_name_r1): a float string such as "1.00" is not an integer literal.
IntOfFloat_IntOnly(s) ==
    CASE s \in DOMAIN NumericTable /\ s \in {"0", "1", "2", "3", "5", "7", "-1"} ->
             [kind |-> "int", n |-> NumericTable[s]]
      [] OTHER -> [kind |-> "ValueError", n |-> 0]

\* int(float(col_name_r1)): an integer, or the exception it raises.
IntOfFloat(s) ==
    CASE s \in DOMAIN NumericTable -> [kind |-> "int", n |-> NumericTable[s]]
      [] s \in {"inf", "-inf", "Infinity"} -> [kind |-> "OverflowError", n |-> 0]
      [] OTHER -> [kind |-> "ValueError", n |-> 0]

NaT == None

\* pd.to_datetime(f"{year}-{month}-01", errors='coerce')
to_datetime_ymd(year, month) ==
    IF month \in 1..12 THEN Some([year |-> year, month |-> month, day |-> 1])
    ELSE NaT

\* The text of a compact year-month cell: "YYYYMM" as its digits' values.
YearMonthDigits ==
    "202501" :> <<2025, 1>> @@ "202502" :> <<2025, 2>> @@
    "202601" :> <<2026, 1>> @@ "202513" :> <<2025, 13>>

\* pd.to_datetime(col, format='%Y%m', errors='coerce')
to_datetime_Ym(s) ==
    IF s \in DOMAIN YearMonthDigits /\ YearMonthDigits[s][2] \in 1..12
    THEN Some([year |-> YearMonthDigits[s][1], month |-> YearMonthDigits[s][2],
               day |-> 1])
    ELSE NaT

-----------------------------------------------------------------------------
(* Error messages returned by parse_contents. *)

ErrOutboundEmpty == <<"Outbound file is empty or contains no data rows.">>
ErrOutboundTooFewRows == <<"Outbound file has too few rows.">>
ErrOutboundMissingColumn(col) ==
    <<"Missing required column after renaming in Outbound file", col>>
ErrNoMonthColumns == <<"No month-specific kit columns found.">>
ErrInboundMissingYearMonth == <<"Missing 'YearMonth' column in Incoming file.">>
ErrUnsupportedFileName == <<"Unsupported file name.">>
ErrProcessing(exc) == <<"Error processing file", exc>>

ParseOk(df) == [df |-> Some(df), err |-> None]
ParseErr(e) == [df |-> None, err |-> Some(e)]

-----------------------------------------------------------------------------
(* groupby([...keys...]).agg(sum).reset_index(): one row per key, the rows *)
(* in ascending key order, the metric summed.                              *)

KeyOf(r) == <<r.Location, r.YearMonth, r.TubeType>>

\* Tuple order of (Location, YearMonth, TubeType), the groupby order.
GroupKeyLess(a, b) ==
    \/ StrRank(a[1]) < StrRank(b[1])
    \/ a[1] = b[1] /\ TsLess(a[2], b[2])
    \/ a[1] = b[1] /\ a[2] = b[2] /\ StrRank(a[3]) < StrRank(b[3])

\* The keys in ascending order: a key's position is the number of keys below it.
SortKeys(keys) ==
    [i \in 1..Cardinality(keys) |->
        CHOOSE k \in keys : Cardinality({o \in keys : GroupKeyLess(o, k)}) = i - 1]

\* agg 'first' in place of 'sum': the metric of the first record of the key.
SumWhere_First(recs, key) ==
    LET own == SelectSeq(recs, LAMBDA r : KeyOf(r) = key)
    IN  IF own = <<>> THEN 0 ELSE own[1].Value

RECURSIVE SumWhere(_, _)
SumWhere(recs, key) ==
    IF recs = <<>> THEN 0
    ELSE (IF KeyOf(Head(recs)) = key THEN Head(recs).Value ELSE 0)
         + SumWhere(Tail(recs), key)

groupby_sum(recs) ==
    LET keys == SortKeys({KeyOf(r) : r \in Range(recs)})
    IN  [i \in 1..Len(keys) |->
            [Location |-> keys[i][1], YearMonth |-> keys[i][2],
             TubeType |-> keys[i][3], Value |-> SumWhere(recs, keys[i])]]

-----------------------------------------------------------------------------
(* parse_contents, outbound branch.  The cell strings of the model carry   *)
(* no surrounding whitespace, so .strip() leaves them as they are.         *)

fixed_id_cols_names ==
    <<"Host Code", "Organization Name", "Territory Name", "Sales Rep Full Name">>

required_outbound_cols == <<"Order_ID", "Location", "Location_Code", "SalesRep">>

expected_outbound_columns_mapping(name) ==
    CASE name = "Host Code" -> "Order_ID"
      [] name = "Organization Name" -> "Location"
      [] name = "Territory Name" -> "Location_Code"
      [] name = "Sales Rep Full Name" -> "SalesRep"
      [] OTHER -> name

\* One entry of new_columns.  kind "fixed": a fixed ID column, by position;
\* kind "month": f"{kit}_Month_{month}"; kind "unknown":
\* f"{kit}_Month_Unknown_{i}".
NewColumn(grid, i) ==
    LET m == IntOfFloat(grid[1][i])
    IN  IF i <= Len(fixed_id_cols_names)
        THEN [kind |-> "fixed", name |-> fixed_id_cols_names[i],
              kit |-> "", month |-> 0, idx |-> i]
        ELSE IF m.kind = "int"
        THEN [kind |-> "month", name |-> "", kit |-> grid[2][i],
              month |-> m.n, idx |-> i]
        ELSE [kind |-> "unknown", name |-> "", kit |-> grid[2][i],
              month |-> 0, idx |-> i]

new_columns(grid) == [i \in 1..Len(grid[2]) |-> NewColumn(grid, i)]

\* len() of the cell strings that stand alone in a one-column file.
StrLen == "x" :> 1 @@ "H" :> 1 @@ "O1" :> 2 @@ "Host Code" :> 9

\* df_raw.iloc[k].squeeze() on a one-column frame is the cell itself, a str:
\* the loop then runs over the characters of header_row2.  header_row1[i]
\* raises IndexError when header_row1 is the shorter string, and otherwise
\* `df_raw.columns = new_columns` raises ValueError unless header_row2 is a
\* single character.  None when nothing is raised.
SqueezeRaises(grid) ==
    IF Len(grid[2]) # 1 THEN None
    ELSE LET len1 == StrLen[grid[1][1]]
             len2 == StrLen[grid[2][1]]
         IN  IF len2 > len1 THEN Some("IndexError")
             ELSE IF len2 # 1 THEN Some("ValueError")
             ELSE None

\* int(float(...)) raises something other than ValueError: it leaves the loop
\* and reaches the function's `except Exception`.
NewColumnsRaises(grid) ==
    \E i \in (Len(fixed_id_cols_names) + 1)..Len(grid[2]) :
        IntOfFloat(grid[1][i]).kind = "OverflowError"

\* The required columns absent after the rename, in the order they are tested.
MissingRequiredCols(cols) ==
    SelectSeq(required_outbound_cols,
              LAMBDA req : ~ \E i \in 1..Len(cols) :
                  /\ cols[i].kind = "fixed"
                  /\ expected_outbound_columns_mapping(cols[i].name) = req)

\* re.search(r'_Month_\d+', col): digits follow "_Month_" exactly when the
\* column carries a month number without a sign.
month_columns(cols) ==
    SelectSeq(cols, LAMBDA c : c.kind = "month" /\ c.month >= 0)

\* df.melt(...): one record per (month column, data row), column by column.
df_melted_multi_month(grid, cols) ==
    LET mc == month_columns(cols)
        nData == Len(grid) - 2
    IN  FlattenSeq([k \in 1..Len(mc) |->
            [j \in 1..nData |->
                [Location |-> grid[j + 2][2],
                 KitDescription |-> mc[k].kit,
                 MonthNum |-> mc[k].month,
                 KitCount |-> grid[j + 2][mc[k].idx]]]])

\* YearMonth from the current year and the month number; NaT rows dropped.
WithYearMonth(recs, current_year) ==
    LET kept == SelectSeq(recs,
                    LAMBDA r : to_datetime_ymd(current_year, r.MonthNum) # NaT)
    IN  [i \in 1..Len(kept) |->
            [Location |-> kept[i].Location,
             KitDescription |-> kept[i].KitDescription,
             YearMonth |-> to_datetime_ymd(current_year, kept[i].MonthNum)[1],
             KitCount |-> kept[i].KitCount]]

\* KitCount made numeric, rows with KitCount > 0 kept.
WithKitCount(recs) ==
    LET num == [i \in 1..Len(recs) |->
                    [Location |-> recs[i].Location,
                     KitDescription |-> recs[i].KitDescription,
                     YearMonth |-> recs[i].YearMonth,
                     KitCount |-> to_numeric_fillna0(recs[i].KitCount)]]
    IN  SelectSeq(num, LAMBDA r : r.KitCount > 0)

\* The tube type columns of one record after the distribution loop.
TubeColumns_IgnoreQty(kit_desc, kit_count) ==
    [t \in Range(TubeTypes) |->
        IF KitInCatalog(kit_desc) /\ t \in DOMAIN kit_to_tube(kit_desc)
        THEN 0 + kit_count
        ELSE 0]

TubeColumns_UnknownAsAcd(kit_desc, kit_count) ==
    [t \in Range(TubeTypes) |->
        IF KitInCatalog(kit_desc)
        THEN (IF t \in DOMAIN kit_to_tube(kit_desc)
              THEN 0 + kit_count * kit_to_tube(kit_desc)[t] ELSE 0)
        ELSE (IF t = "ACD" THEN kit_count ELSE 0)]

TubeColumns(kit_desc, kit_count) ==
    [t \in Range(TubeTypes) |->
        IF KitInCatalog(kit_desc) /\ t \in DOMAIN kit_to_tube(kit_desc)
        THEN 0 + kit_count * kit_to_tube(kit_desc)[t]
        ELSE 0]

\* The second melt over the tube types, rows with TubesSent > 0 kept.
df_outbound_tubes(recs) ==
    LET melted == FlattenSeq([k \in 1..Len(TubeTypes) |->
                    [i \in 1..Len(recs) |->
                        [Location |-> recs[i].Location,
                         YearMonth |-> recs[i].YearMonth,
                         TubeType |-> TubeTypes[k],
                         Value |-> TubeColumns(recs[i].KitDescription,
                                               recs[i].KitCount)[TubeTypes[k]]]]])
    IN  SelectSeq(melted, LAMBDA r : r.Value > 0)

OutboundColumns == <<"Location", "YearMonth", "TubeType", "TubesSent">>

\* A parse_outbound that looks at the columns of the first row before it
\* counts the rows.
parse_outbound_ColumnsFirst(grid, current_year) ==
    IF grid = <<>> THEN ParseErr(ErrProcessing("EmptyDataError"))
    ELSE IF Len(grid[1]) < Len(required_outbound_cols)
    THEN ParseErr(ErrOutboundMissingColumn(required_outbound_cols[Len(grid[1]) + 1]))
    ELSE IF Len(grid) < 2 THEN ParseErr(ErrOutboundTooFewRows)
    ELSE IF SqueezeRaises(grid) # None
    THEN ParseErr(ErrProcessing(SqueezeRaises(grid)[1]))
    ELSE IF NewColumnsRaises(grid) THEN ParseErr(ErrProcessing("OverflowError"))
    ELSE LET cols == new_columns(grid)
             missing == MissingRequiredCols(cols)
         IN  IF missing # <<>> THEN ParseErr(ErrOutboundMissingColumn(missing[1]))
             ELSE IF month_columns(cols) = <<>> THEN ParseErr(ErrNoMonthColumns)
             ELSE ParseOk([columns |-> OutboundColumns,
                           rows |-> groupby_sum(df_outbound_tubes(WithKitCount(
                               WithYearMonth(df_melted_multi_month(grid, cols),
                                             current_year))))])

parse_outbound(grid, current_year) ==
    IF grid = <<>> THEN ParseErr(ErrProcessing("EmptyDataError"))
    ELSE IF Len(grid) < 2 THEN ParseErr(ErrOutboundTooFewRows)
    ELSE IF SqueezeRaises(grid) # None
    THEN ParseErr(ErrProcessing(SqueezeRaises(grid)[1]))
    ELSE IF NewColumnsRaises(grid) THEN ParseErr(ErrProcessing("OverflowError"))
    ELSE LET cols == new_columns(grid)
             missing == MissingRequiredCols(cols)
         IN  IF missing # <<>> THEN ParseErr(ErrOutboundMissingColumn(missing[1]))
             ELSE IF month_columns(cols) = <<>> THEN ParseErr(ErrNoMonthColumns)
             ELSE ParseOk([columns |-> OutboundColumns,
                           rows |-> groupby_sum(df_outbound_tubes(WithKitCount(
                               WithYearMonth(df_melted_multi_month(grid, cols),
                                             current_year))))])

-----------------------------------------------------------------------------
(* parse_contents, inbound branch. *)

\* df.rename(columns={'color': 'TubeType', 'Num': 'Count'})
InboundRename(name) ==
    CASE name = "color" -> "TubeType"
      [] name = "Num" -> "Count"
      [] OTHER -> name

InboundHeader(grid) == [i \in 1..Len(grid[1]) |-> InboundRename(grid[1][i])]

HasColumn(header, name) == \E i \in 1..Len(header) : header[i] = name

ColumnIndex(header, name) == CHOOSE i \in 1..Len(header) : header[i] = name

InboundColumns == <<"Location", "YearMonth", "TubeType", "SamplesReturned">>

\* The data rows with Count made numeric and YearMonth parsed (NaT dropped).
InboundRecords(grid) ==
    LET header == InboundHeader(grid)
        data == [j \in 1..(Len(grid) - 1) |-> grid[j + 1]]
        kept == SelectSeq(data, LAMBDA row :
                    to_datetime_Ym(row[ColumnIndex(header, "YearMonth")]) # NaT)
    IN  [i \in 1..Len(kept) |->
            [Location |-> kept[i][ColumnIndex(header, "Location")],
             YearMonth |-> to_datetime_Ym(kept[i][ColumnIndex(header, "YearMonth")])[1],
             TubeType |-> kept[i][ColumnIndex(header, "TubeType")],
             Value |-> to_numeric_fillna0(kept[i][ColumnIndex(header, "Count")])]]

parse_inbound(grid) ==
    IF grid = <<>> THEN ParseErr(ErrProcessing("EmptyDataError"))
    ELSE LET header == InboundHeader(grid)
         IN  IF ~ HasColumn(header, "Count")
             THEN ParseErr(ErrProcessing("KeyError: 'Count'"))
             ELSE IF ~ HasColumn(header, "YearMonth")
             THEN ParseErr(ErrInboundMissingYearMonth)
             ELSE IF ~ HasColumn(header, "Location")
             THEN ParseErr(ErrProcessing("KeyError: 'Location'"))
             ELSE IF ~ HasColumn(header, "TubeType")
             THEN ParseErr(ErrProcessing("KeyError: 'TubeType'"))
             ELSE ParseOk([columns |-> InboundColumns,
                           rows |-> groupby_sum(InboundRecords(grid))])

-----------------------------------------------------------------------------
(* parse_contents: the dispatch on the filename. *)

is_outbound(name) == StrContains(name, OUT_)

is_inbound(name) == StrContains(name, IN_)

\* The branch of the if / elif / else that a filename takes.
Branch(name) ==
    IF is_outbound(name) /\ StrEndsWith(name, DOT_CSV) THEN "outbound"
    ELSE IF is_inbound(name) /\ StrEndsWith(name, DOT_CSV) THEN "inbound"
    ELSE "unsupported"

\* A parse_contents whose inbound branch took the year of YearMonth from the
\* clock, as the outbound branch does.
parse_contents_InboundUsesClock(grid, name, current_year) ==
    CASE Branch(name) = "outbound" -> parse_outbound(grid, current_year)
      [] Branch(name) = "inbound" ->
            LET res == parse_inbound(grid)
            IN  IF res.df = None THEN res
                ELSE ParseOk([columns |-> res.df[1].columns,
                              rows |-> [i \in 1..Len(res.df[1].rows) |->
                                  [res.df[1].rows[i]
                                      EXCEPT !.YearMonth.year = current_year]]])
      [] OTHER -> ParseErr(ErrUnsupportedFileName)

parse_contents(grid, name, current_year) ==
    CASE Branch(name) = "outbound" -> parse_outbound(grid, current_year)
      [] Branch(name) = "inbound" -> parse_inbound(grid)
      [] OTHER -> ParseErr(ErrUnsupportedFileName)

-----------------------------------------------------------------------------
(* The inputs: filenames, outbound grids and inbound grids. *)

\* "out_1.csv", "in_1.csv", "in_out_1.csv", "data.csv", "out_1.txt",
\* "in_1.txt", "sprout_1.csv" and "main_1.csv", character by character.
FN_out == <<"o", "u", "t", "_", "1", ".", "c", "s", "v">>
FN_in == <<"i", "n", "_", "1", ".", "c", "s", "v">>
FN_in_out == <<"i", "n", "_", "o", "u", "t", "_", "1", ".", "c", "s", "v">>
FN_neither == <<"d", "a", "t", "a", ".", "c", "s", "v">>
FN_out_txt == <<"o", "u", "t", "_", "1", ".", "t", "x", "t">>
FN_in_txt == <<"i", "n", "_", "1", ".", "t", "x", "t">>
FN_sprout == <<"s", "p", "r", "o", "u", "t", "_", "1", ".", "c", "s", "v">>
FN_main == <<"m", "a", "i", "n", "_", "1", ".", "c", "s", "v">>

FileNames ==
    {FN_out, FN_in, FN_in_out, FN_neither, FN_out_txt, FN_in_txt, FN_sprout,
     FN_main}

Years == {2025, 2026}

Locations == {"Loc A", "Loc B"}

KitAB == "MNT & Telomere Kit (2 ACD, 1 Blue Sodium Citrate)"
KitA == "MNT Kit Only (2 ACD)"
KitS == "Tube - SST (7.5 mL) Tiger Top"
KitUnknown == "Mystery Kit"

Col(token, kit) == [token |-> token, kit |-> kit]

\* The data columns of an outbound file: (month token, kit description).
OutboundLayouts ==
    { <<>>,
      <<Col("1.00", KitAB)>>,
      <<Col("1.00", KitUnknown)>>,
      <<Col("Total", KitA)>>,
      <<Col("13.00", KitA)>>,
      <<Col("1.00", KitA), Col("1.00", KitAB)>>,
      <<Col("1.00", KitA), Col("2.00", KitA)>>,
      <<Col("1.00", KitAB), Col("1.00", KitUnknown)>>,
      <<Col("1.00", KitUnknown), Col("2.00", KitUnknown)>>,
      <<Col("1.00", KitS), Col("Total", KitA)>>,
      <<Col("inf", KitA)>>,
      <<Col("-1.00", KitA)>>,
      <<Col("1.00", KitA), Col("inf", KitA)>>,
      <<Col("2.00", KitA), Col("13.00", KitAB)>> }

KitCountCells == {"3", "x"}

OutboundGrid(layout, rows) ==
    << <<"", "", "", "">> \o [i \in 1..Len(layout) |-> layout[i].token],
       fixed_id_cols_names \o [i \in 1..Len(layout) |-> layout[i].kit] >>
    \o [j \in 1..Len(rows) |-> <<"O1", rows[j].loc, "Terr1", "Rep1">> \o rows[j].cells]

\* Outbound files with 1..n data rows.
OutboundGrids(n) ==
    UNION { { OutboundGrid(layout, rows) :
                rows \in UNION { [1..k -> [loc : Locations,
                                           cells : [1..Len(layout) -> KitCountCells]]]
                                 : k \in 1..n } }
            : layout \in OutboundLayouts }

InboundHeaderRow == <<"LID", "Location", "Territory", "YearMonth", "color", "Num">>

InboundRows ==
    { <<"7", loc, "Terr1", ym, color, num>> :
        loc \in Locations, ym \in {"202501", "2025-01"},
        color \in {"ACD", "Blue"}, num \in {"7", "x"} }

\* Inbound files with 0..n data rows.
InboundGrids(n) == { <<InboundHeaderRow>> \o rows : rows \in SeqsUpTo(InboundRows, n) }

\* The grid without its column c.
DropColumn(grid, c) ==
    [j \in 1..Len(grid) |->
        SubSeq(grid[j], 1, c - 1) \o SubSeq(grid[j], c + 1, Len(grid[j]))]

\* Inbound files that lack one column of the header.
InboundGridsMissingColumn ==
    { DropColumn(<<InboundHeaderRow, <<"7", "Loc A", "Terr1", "202501", "ACD", "7">> >>, c) :
        c \in 1..Len(InboundHeaderRow) }

\* Inbound files with a tube type outside the four, a negative count, a
\* month 13, next to a regular row.
InboundGridsOddRows ==
    { <<InboundHeaderRow, <<"7", "Loc A", "Terr1", "202501", "ACD", "7">>, odd>> :
        odd \in { <<"7", "Loc A", "Terr1", "202501", "Red", "7">>,
                  <<"7", "Loc B", "Terr1", "202501", "ACD", "-1">>,
                  <<"7", "Loc B", "Terr1", "202513", "ACD", "7">> } }

\* Outbound files with fewer than four columns; a one-column file has no
\* empty cell in a header row (read_csv skips blank lines).
OutboundGridsNarrow ==
    { << <<"x">>, <<"Host Code">>, <<"O1">> >>,
      << <<"x">>, <<"H">>, <<"O1">> >>,
      << <<"", "">>, <<"Host Code", "Organization Name">>, <<"O1", "Loc A">> >>,
      << <<"", "", "">>, <<"Host Code", "Organization Name", "Territory Name">>,
         <<"O1", "Loc A", "Terr1">> >> }

\* Outbound files of a single row, whose header a parser could not use.
OutboundGridsOneRow ==
    { << <<"x">> >>, << <<"", "", "">> >>, << <<"", "", "", "", "inf">> >> }

EmptyGrid == <<>>
OneRowGrid == << <<"", "", "", "", "1.00">> >>

\* Files offered under every filename.
DispatchGrids ==
    { EmptyGrid, OneRowGrid,
      OutboundGrid(<<Col("1.00", KitAB)>>, <<[loc |-> "Loc A", cells |-> <<"3">>]>>),
      <<InboundHeaderRow, <<"7", "Loc A", "Terr1", "202501", "ACD", "7">> >> }

ParseInputs ==
    ({[grid |-> g, name |-> FN_out] : g \in OutboundGrids(MaxRows)})
    \cup ({[grid |-> g, name |-> FN_in] : g \in InboundGrids(MaxRows)})
    \cup ({[grid |-> g, name |-> n] : g \in DispatchGrids, n \in FileNames})
    \cup ({[grid |-> g, name |-> FN_in] :
                g \in InboundGridsMissingColumn \cup InboundGridsOddRows})
    \cup ({[grid |-> g, name |-> FN_out] :
                g \in OutboundGridsNarrow \cup OutboundGridsOneRow})

-----------------------------------------------------------------------------
(* The state after construction (the page layout): every store is empty.   *)
(* merge_data's call at page load is pending, unless the renderer drops it *)
(* because handle_uploads' first call updates neither store.               *)

AppInit ==
    /\ upload_outbound_data = None
    /\ upload_inbound_data = None
    /\ outbound_data_store = None
    /\ inbound_data_store = None
    /\ merged_data_store = None
    /\ merge_status = "None"
    /\ outbound_upload_status = [kind |-> "None", detail |-> <<>>]
    /\ inbound_upload_status = [kind |-> "None", detail |-> <<>>]

\* dcc.Input(id='alert-threshold-input', type='number', value=50, ...)
default_threshold == 50

ParseIdle ==
    /\ contents = <<>>
    /\ filename = <<>>
    /\ run1 = None
    /\ run2 = None

\* The alert widgets as the page layout makes them: the threshold input
\* holds its default and no alert has been computed.
AlertIdle ==
    /\ alert_threshold_input = Some(default_threshold)
    /\ unused_kit_alerts = None

\* A signed-in session looking at the Single Month Merger page, where the
\* widgets above live.
LoginIdle ==
    /\ url_pathname = "/single-month-merger"
    /\ login_status = [logged_in |-> TRUE]
    /\ page_content = "single_month_merger.layout"
    /\ navbar_style = "block"
    /\ login_message = None
    /\ login_button_n_clicks = 0
    /\ password_input = None
    /\ display_pending = FALSE

\* The clock: the year changes.
Tick ==
    /\ now_year + 1 \in Years
    /\ now_year' = now_year + 1
    /\ UNCHANGED <<appVars, parseVars, alertVars, loginVars>>

-----------------------------------------------------------------------------
(* parse_contents run twice on the same bytes and filename. *)

ParseInit ==
    /\ now_year = 2025
    /\ AppInit
    /\ merge_pending = TRUE
    /\ \E inp \in ParseInputs : contents = inp.grid /\ filename = inp.name
    /\ run1 = None
    /\ run2 = None
    /\ AlertIdle
    /\ LoginIdle

Run1 ==
    /\ run1 = None
    /\ run1' = Some([result |-> parse_contents(contents, filename, now_year),
                     year |-> now_year])
    /\ UNCHANGED <<now_year, appVars, contents, filename, run2, alertVars, loginVars>>

Run2 ==
    /\ run1 # None
    /\ run2 = None
    /\ run2' = Some([result |-> parse_contents(contents, filename, now_year),
                     year |-> now_year])
    /\ UNCHANGED <<now_year, appVars, contents, filename, run1, alertVars, loginVars>>

ParseNext == Run1 \/ Run2 \/ Tick

SpecParse == ParseInit /\ [][ParseNext]_vars

-----------------------------------------------------------------------------
(* The conversions between a DataFrame and the JSON kept in a dcc.Store.   *)

\* df['YearMonth'].dt.date.astype(str): "YYYY-MM-DD"
DateStr(ts) == <<ts.year, ts.month, ts.day>>

\* pd.to_datetime("YYYY-MM-DD")
to_datetime_str(str) == [year |-> str[1], month |-> str[2], day |-> str[3]]

\* date_format='iso': "YYYY-MM-DDT00:00:00.000"
IsoStr(ts) == <<ts.year, ts.month, ts.day, 0, 0, 0>>

\* .dt.strftime('%Y-%m')
strftime_Ym(ts) == <<ts.year, ts.month>>

\* handle_uploads: YearMonth made a string, then df.to_json(orient='split').
df_to_json(df) ==
    [columns |-> df.columns,
     data |-> [i \in 1..Len(df.rows) |->
                  [Location |-> df.rows[i].Location,
                   YearMonth |-> DateStr(df.rows[i].YearMonth),
                   TubeType |-> df.rows[i].TubeType,
                   Value |-> df.rows[i].Value]]]

\* merge_data: pd.read_json(..., orient='split'), then YearMonth made a datetime.
read_json(json) ==
    [columns |-> json.columns,
     rows |-> [i \in 1..Len(json.data) |->
                  [Location |-> json.data[i].Location,
                   YearMonth |-> to_datetime_str(json.data[i].YearMonth),
                   TubeType |-> json.data[i].TubeType,
                   Value |-> json.data[i].Value]]]

-----------------------------------------------------------------------------
(* merge_data. *)

NoticeUploadBoth == "Upload both files to see merged data."
StatusMerged == "Data merged and processed successfully!"
StatusMergeError == "An error occurred during merge"

NaN == None

\* The metric column of a frame: the column after the three key columns.
MetricColumn(df) == df.columns[4]

\* how='inner': only the matching pairs.
outer_merge_Inner(left, right) ==
    FlattenSeq([i \in 1..Len(left.rows) |->
        LET l == left.rows[i]
            m == SelectSeq(right.rows, LAMBDA r : KeyOf(r) = KeyOf(l))
        IN  [k \in 1..Len(m) |->
                [Location |-> l.Location, YearMonth |-> l.YearMonth,
                 TubeType |-> l.TubeType,
                 Left |-> Some(l.Value), Right |-> Some(m[k].Value)]]])

\* pd.merge(left, right, on=[Location, YearMonth, TubeType], how='outer'):
\* a row per matching pair, a row per left row without a match, a row per
\* right row without a match; the absent side's metric is NaN.
outer_merge(left, right) ==
    LET matches(l) == SelectSeq(right.rows, LAMBDA r : KeyOf(r) = KeyOf(l))
        fromLeft == FlattenSeq([i \in 1..Len(left.rows) |->
            LET l == left.rows[i]
                m == matches(l)
            IN  IF m = <<>>
                THEN << [Location |-> l.Location, YearMonth |-> l.YearMonth,
                         TubeType |-> l.TubeType,
                         Left |-> Some(l.Value), Right |-> NaN] >>
                ELSE [k \in 1..Len(m) |->
                         [Location |-> l.Location, YearMonth |-> l.YearMonth,
                          TubeType |-> l.TubeType,
                          Left |-> Some(l.Value), Right |-> Some(m[k].Value)]]])
        rightOnly == SelectSeq(right.rows, LAMBDA r :
                         ~ \E i \in 1..Len(left.rows) : KeyOf(left.rows[i]) = KeyOf(r))
    IN  fromLeft \o [i \in 1..Len(rightOnly) |->
                        [Location |-> rightOnly[i].Location,
                         YearMonth |-> rightOnly[i].YearMonth,
                         TubeType |-> rightOnly[i].TubeType,
                         Left |-> NaN, Right |-> Some(rightOnly[i].Value)]]

fillna0_AsOne(x) == IF x = NaN THEN 1 ELSE x[1]

\* .fillna(0)
fillna0(x) == IF x = NaN THEN 0 ELSE x[1]

RemainingKits_Clamped(tubes_sent, samples_returned) ==
    IF tubes_sent - samples_returned < 0 THEN 0 ELSE tubes_sent - samples_returned

\* merged_df['TubesSent'] - merged_df['SamplesReturned']
RemainingKits(tubes_sent, samples_returned) == tubes_sent - samples_returned

\* sort_values(by=['Location', 'YearMonth', 'TubeType']): the groupby order.
MergedRowLess_LocationFirst(a, b) ==
    \/ StrRank(a.Location) < StrRank(b.Location)
    \/ a.Location = b.Location /\ TsLess(a.YearMonth, b.YearMonth)
    \/ a.Location = b.Location /\ a.YearMonth = b.YearMonth
       /\ StrRank(a.TubeType) < StrRank(b.TubeType)

\* The order of sort_values(by=['YearMonth', 'Location', 'TubeType']).
MergedRowLess(a, b) ==
    \/ TsLess(a.YearMonth, b.YearMonth)
    \/ a.YearMonth = b.YearMonth /\ StrRank(a.Location) < StrRank(b.Location)
    \/ a.YearMonth = b.YearMonth /\ a.Location = b.Location
       /\ StrRank(a.TubeType) < StrRank(b.TubeType)

RECURSIVE InsertSorted(_, _)
InsertSorted(row, sorted) ==
    IF sorted = <<>> THEN <<row>>
    ELSE IF ~ MergedRowLess(Head(sorted), row) THEN <<row>> \o sorted
    ELSE <<Head(sorted)>> \o InsertSorted(row, Tail(sorted))

\* A stable sort: rows are inserted from the last to the first.
RECURSIVE sort_values(_)
sort_values(rows) ==
    IF rows = <<>> THEN <<>>
    ELSE InsertSorted(Head(rows), sort_values(Tail(rows)))

\* The rows of merged_df, given which side carries which metric.
MergedRows(left, right) ==
    LET joined == outer_merge(left, right)
        sentIsLeft == MetricColumn(left) = "TubesSent"
        filled == [i \in 1..Len(joined) |->
            LET sent == fillna0(IF sentIsLeft THEN joined[i].Left ELSE joined[i].Right)
                back == fillna0(IF sentIsLeft THEN joined[i].Right ELSE joined[i].Left)
            IN  [Location |-> joined[i].Location,
                 YearMonth |-> joined[i].YearMonth,
                 TubeType |-> joined[i].TubeType,
                 TubesSent |-> sent,
                 SamplesReturned |-> back,
                 RemainingKits |-> RemainingKits(sent, back)]]
        sorted == sort_values(filled)
    IN  [i \in 1..Len(sorted) |->
            [Location |-> sorted[i].Location,
             YearMonth |-> IsoStr(sorted[i].YearMonth),
             TubeType |-> sorted[i].TubeType,
             TubesSent |-> sorted[i].TubesSent,
             SamplesReturned |-> sorted[i].SamplesReturned,
             RemainingKits |-> sorted[i].RemainingKits,
             YearMonth_Display |-> strftime_Ym(sorted[i].YearMonth)]]

merge_data_ErrorWhenOneAbsent(outbound_json, inbound_json) ==
    IF outbound_json = None /\ inbound_json = None
    THEN [data |-> None, status |-> NoticeUploadBoth]
    ELSE [data |-> None, status |-> StatusMergeError]

\* What merge_data returns: the merged-data-store value and the status.
merge_data(outbound_json, inbound_json) ==
    IF outbound_json = None \/ inbound_json = None
    THEN [data |-> None, status |-> NoticeUploadBoth]
    ELSE LET left == read_json(outbound_json[1])
             right == read_json(inbound_json[1])
         IN  IF MetricColumn(left) = MetricColumn(right)
             THEN \* both metrics get a suffix: merged_df['TubesSent'] raises KeyError
                  [data |-> None, status |-> StatusMergeError]
             ELSE [data |-> Some([columns |->
                                     <<"Location", "YearMonth", "TubeType",
                                       MetricColumn(left), MetricColumn(right),
                                       "RemainingKits", "YearMonth_Display">>,
                                  data |-> MergedRows(left, right)]),
                   status |-> StatusMerged]

-----------------------------------------------------------------------------
(* handle_uploads. *)

StatusBlank == [kind |-> "", detail |-> <<>>]
StatusLayout == [kind |-> "None", detail |-> <<>>]
StatusNoOutbound == [kind |-> "No Outbound file uploaded yet.", detail |-> <<>>]
StatusNoInbound == [kind |-> "No Inbound file uploaded yet.", detail |-> <<>>]
StatusError(err) == [kind |-> "Error", detail |-> err]
StatusLoaded(side, name) == [kind |-> side, detail |-> name]

\* The store value and status text for the side whose upload triggered the
\* callback.
UploadOutcome_KeepOnError(side, grid, name, current_year, old) ==
    LET r == parse_contents(grid, name, current_year)
    IN  IF r.err # None
        THEN [json |-> old, status |-> StatusError(r.err[1])]
        ELSE [json |-> Some(df_to_json(r.df[1])), status |-> StatusLoaded(side, name)]

UploadOutcome(side, grid, name, current_year, old) ==
    LET r == parse_contents(grid, name, current_year)
    IN  IF r.err # None
        THEN [json |-> None, status |-> StatusError(r.err[1])]
        ELSE [json |-> Some(df_to_json(r.df[1])), status |-> StatusLoaded(side, name)]

\* The store of the side that did not trigger the callback.
OtherStore_ClearedOnError(triggered_outcome, other) ==
    IF triggered_outcome.status.kind = "Error" THEN None ELSE other

\* dash.no_update
OtherStore(triggered_outcome, other) == other

\* The first call, at page load: nothing triggered it.
HandleUploadsInitial ==
    /\ outbound_upload_status = StatusLayout
    /\ outbound_upload_status' = StatusNoOutbound
    /\ inbound_upload_status' = StatusNoInbound
    /\ UNCHANGED <<now_year, upload_outbound_data, upload_inbound_data,
                   outbound_data_store, inbound_data_store,
                   merged_data_store, merge_status, merge_pending, parseVars,
                   alertVars, loginVars>>

\* trigger_id = 'upload-outbound-data'
HandleUploadsOutbound(grid, name) ==
    LET out == UploadOutcome("Outbound", grid, name, now_year, outbound_data_store)
    IN  /\ outbound_upload_status # StatusLayout
        /\ upload_outbound_data' = Some([grid |-> grid, name |-> name])
        /\ UNCHANGED upload_inbound_data
        /\ outbound_data_store' = out.json
        /\ inbound_data_store' = OtherStore(out, inbound_data_store)
        /\ outbound_upload_status' = out.status
        /\ inbound_upload_status' = StatusBlank
        /\ merge_pending' = TRUE
        /\ UNCHANGED <<now_year, merged_data_store, merge_status, parseVars,
                       alertVars, loginVars>>

\* trigger_id = 'upload-inbound-data'
HandleUploadsInbound(grid, name) ==
    LET out == UploadOutcome("Inbound", grid, name, now_year, inbound_data_store)
    IN  /\ outbound_upload_status # StatusLayout
        /\ upload_inbound_data' = Some([grid |-> grid, name |-> name])
        /\ UNCHANGED upload_outbound_data
        /\ inbound_data_store' = out.json
        /\ outbound_data_store' = OtherStore(out, outbound_data_store)
        /\ inbound_upload_status' = out.status
        /\ outbound_upload_status' = StatusBlank
        /\ merge_pending' = TRUE
        /\ UNCHANGED <<now_year, merged_data_store, merge_status, parseVars,
                       alertVars, loginVars>>

\* The merge_data callback runs on the stores as they are now.
MergeData ==
    /\ merge_pending
    /\ LET m == merge_data(outbound_data_store, inbound_data_store)
       IN  /\ merged_data_store' = m.data
           /\ merge_status' = m.status
    /\ merge_pending' = FALSE
    /\ UNCHANGED <<now_year, upload_outbound_data, upload_inbound_data,
                   outbound_data_store, inbound_data_store,
                   outbound_upload_status, inbound_upload_status, parseVars,
                   alertVars, loginVars>>

-----------------------------------------------------------------------------
(* The page: uploads on either side, the merge callback, the clock. *)

\* The files a user uploads, each under a filename.
UploadFile(grid, name) == [grid |-> grid, name |-> name]

GridAB == OutboundGrid(<<Col("1.00", KitAB)>>, <<[loc |-> "Loc A", cells |-> <<"3">>]>>)
GridInAcd == <<InboundHeaderRow, <<"7", "Loc A", "Terr1", "202501", "ACD", "7">> >>
OutFileAB == UploadFile(GridAB, FN_out)
OutFileTwoMonths ==
    UploadFile(OutboundGrid(<<Col("1.00", KitA), Col("2.00", KitA)>>,
                            <<[loc |-> "Loc B", cells |-> <<"3", "3">>]>>), FN_out)
OutFileTwoKits ==
    UploadFile(OutboundGrid(<<Col("1.00", KitA), Col("1.00", KitAB)>>,
                            <<[loc |-> "Loc A", cells |-> <<"3", "3">>]>>), FN_out)
OutFileUnknownKit ==
    UploadFile(OutboundGrid(<<Col("1.00", KitUnknown)>>,
                            <<[loc |-> "Loc A", cells |-> <<"3">>]>>), FN_out)
OutFileTooFewRows == UploadFile(OneRowGrid, FN_out)
OutFileBadName == UploadFile(GridAB, FN_neither)
InFileAcd == UploadFile(GridInAcd, FN_in)
InFileTwoRows ==
    UploadFile(<<InboundHeaderRow,
                 <<"7", "Loc A", "Terr1", "202501", "Blue", "x">>,
                 <<"7", "Loc B", "Terr1", "202501", "ACD", "7">> >>, FN_in)
InFileBadMonth ==
    UploadFile(<<InboundHeaderRow,
                 <<"7", "Loc A", "Terr1", "2025-01", "ACD", "7">> >>, FN_in)
InFileBadName == UploadFile(GridInAcd, FN_neither)

\* The worked example: 5 kits of 2 ACD sent to Loc A in month 1, and 3 ACD
\* samples returned from Loc A in 2025-01.
OutFileScenario ==
    UploadFile(OutboundGrid(<<Col("1.00", KitA)>>,
                            <<[loc |-> "Loc A", cells |-> <<"5">>]>>), FN_out)
InFileScenario ==
    UploadFile(<<InboundHeaderRow,
                 <<"7", "Loc A", "Terr1", "202501", "ACD", "3">> >>, FN_in)

\* What is dropped on the outbound widget, and on the inbound widget: the
\* files meant for it, broken ones, and one file meant for the other widget.
OutboundUploads ==
    {OutFileAB, OutFileTwoMonths, OutFileTwoKits, OutFileUnknownKit, OutFileTooFewRows,
     OutFileBadName, InFileAcd, OutFileScenario}

InboundUploads ==
    {InFileAcd, InFileTwoRows, InFileBadMonth, InFileBadName, OutFileAB,
     InFileScenario}

Init ==
    /\ now_year = 2025
    /\ AppInit
    /\ merge_pending \in BOOLEAN
    /\ ParseIdle
    /\ AlertIdle
    /\ LoginIdle

UploadOutbound == \E inp \in OutboundUploads : HandleUploadsOutbound(inp.grid, inp.name)

UploadInbound == \E inp \in InboundUploads : HandleUploadsInbound(inp.grid, inp.name)

Next ==
    \/ HandleUploadsInitial
    \/ UploadOutbound
    \/ UploadInbound
    \/ MergeData
    \/ Tick

Spec == Init /\ [][Next]_vars

-----------------------------------------------------------------------------
(* Properties of the reconciled table.                                     *)

\* The callbacks have settled on the output of the outbound parser and the
\* output of the inbound parser.
Reconciled ==
    /\ ~ merge_pending
    /\ outbound_data_store # None
    /\ inbound_data_store # None
    /\ outbound_data_store[1].columns = OutboundColumns
    /\ inbound_data_store[1].columns = InboundColumns

JsonKey(d) == <<d.Location, d.YearMonth, d.TubeType>>

\* The key of a merged row, with the date of its ISO string.
MergedKey(r) ==
    <<r.Location, <<r.YearMonth[1], r.YearMonth[2], r.YearMonth[3]>>, r.TubeType>>

StoreKeys(store) == {JsonKey(d) : d \in Range(store[1].data)}

\* The metric a store holds for a key, 0 when it has no row for it.
StoreValue(store, key) ==
    IF key \in StoreKeys(store)
    THEN (CHOOSE d \in Range(store[1].data) : JsonKey(d) = key).Value
    ELSE 0

MergedData == merged_data_store[1].data

\* C1: the reconciled table holds exactly one row for each key of the
\* outbound rows or of the inbound rows, and no row for any other key.
C1_OneRowPerKey ==
    Reconciled =>
        /\ merged_data_store # None
        /\ \A k \in StoreKeys(outbound_data_store) \cup StoreKeys(inbound_data_store) :
               Cardinality({i \in 1..Len(MergedData) : MergedKey(MergedData[i]) = k}) = 1
        /\ \A i \in 1..Len(MergedData) :
               MergedKey(MergedData[i]) \in
                   StoreKeys(outbound_data_store) \cup StoreKeys(inbound_data_store)

\* A reconciled table with a key of both inputs, a key of the outbound rows
\* alone and a key of the inbound rows alone.
C1_Witness ==
    /\ Reconciled
    /\ merged_data_store # None
    /\ StoreKeys(outbound_data_store) \cap StoreKeys(inbound_data_store) # {}
    /\ StoreKeys(outbound_data_store) \ StoreKeys(inbound_data_store) # {}
    /\ StoreKeys(inbound_data_store) \ StoreKeys(outbound_data_store) # {}

\* C2: in every reconciled row RemainingKits is the tubes sent for the key
\* minus the samples returned for it, exactly; an over-return keeps its row,
\* with a negative remaining, and the merge reports success.
C2_RemainingExact ==
    Reconciled =>
        /\ merged_data_store # None
        /\ merge_status = StatusMerged
        /\ \A i \in 1..Len(MergedData) :
               LET r == MergedData[i]
               IN  /\ r.RemainingKits = r.TubesSent - r.SamplesReturned
                   /\ r.RemainingKits =
                          StoreValue(outbound_data_store, MergedKey(r))
                          - StoreValue(inbound_data_store, MergedKey(r))
        /\ \A k \in StoreKeys(inbound_data_store) :
               StoreValue(inbound_data_store, k) > StoreValue(outbound_data_store, k)
               => \E i \in 1..Len(MergedData) :
                      /\ MergedKey(MergedData[i]) = k
                      /\ MergedData[i].RemainingKits < 0

\* A reconciled row of a key both files have, with more returned than sent.
C2_Witness ==
    /\ Reconciled
    /\ merged_data_store # None
    /\ \E i \in 1..Len(MergedData) :
           /\ MergedData[i].RemainingKits < 0
           /\ MergedData[i].TubesSent > 0

\* C3: a reconciled row whose key has no outbound row has TubesSent = 0, and
\* one whose key has no inbound row has SamplesReturned = 0.
C3_ZeroFill ==
    Reconciled =>
        /\ merged_data_store # None
        /\ \A i \in 1..Len(MergedData) :
               LET r == MergedData[i]
               IN  /\ MergedKey(r) \notin StoreKeys(outbound_data_store)
                      => r.TubesSent = 0
                   /\ MergedKey(r) \notin StoreKeys(inbound_data_store)
                      => r.SamplesReturned = 0

\* A reconciled table with a row of each kind.
C3_Witness ==
    /\ Reconciled
    /\ merged_data_store # None
    /\ \E i \in 1..Len(MergedData) :
           /\ MergedKey(MergedData[i]) \notin StoreKeys(outbound_data_store)
           /\ MergedData[i].SamplesReturned > 0
    /\ \E i \in 1..Len(MergedData) :
           /\ MergedKey(MergedData[i]) \notin StoreKeys(inbound_data_store)
           /\ MergedData[i].TubesSent > 0

-----------------------------------------------------------------------------
(* Properties of the upload and merge callbacks.                           *)

\* C7: a handle_uploads call triggered by an upload on one side leaves the
\* data store of the other side as it was, whether the file parsed or not.
C7_ParseFailureIsolation ==
    [][ /\ UploadOutbound => inbound_data_store' = inbound_data_store
        /\ UploadInbound => outbound_data_store' = outbound_data_store ]_vars

\* A failed upload on one side next to the parsed rows of the other side.
C7_Witness ==
    \/ /\ outbound_upload_status.kind = "Error"
       /\ inbound_data_store # None
       /\ inbound_data_store[1].data # <<>>
    \/ /\ inbound_upload_status.kind = "Error"
       /\ outbound_data_store # None
       /\ outbound_data_store[1].data # <<>>

\* C8: when merge_data runs with the outbound or the inbound input absent it
\* returns no reconciled result with the notice to upload both files, which
\* is not the error status.
C8_InsufficientData ==
    [][ ( /\ merge_pending
          /\ ~ merge_pending'
          /\ (outbound_data_store = None \/ inbound_data_store = None) )
        => ( /\ merged_data_store' = None
             /\ merge_status' = NoticeUploadBoth
             /\ merge_status' # StatusMergeError ) ]_vars

\* merge_data has run with exactly one input present.
C8_Witness ==
    /\ ~ merge_pending
    /\ merge_status = NoticeUploadBoth
    /\ (outbound_data_store = None) # (inbound_data_store = None)

\* C9: once the callbacks have settled the merged store is what merge_data
\* computes from the two stores as they are now; it holds data only if both
\* stores do, and it is empty after a failed upload, which cleared its side.
C9_MergedIsRecomputed ==
    ~ merge_pending =>
        /\ merged_data_store =
               merge_data(outbound_data_store, inbound_data_store).data
        /\ merged_data_store # None
               => outbound_data_store # None /\ inbound_data_store # None
        /\ outbound_upload_status.kind = "Error"
               => outbound_data_store = None /\ merged_data_store = None
        /\ inbound_upload_status.kind = "Error"
               => inbound_data_store = None /\ merged_data_store = None

\* A failed upload on one side has emptied a merged store that held rows:
\* the other side still holds its rows and the callbacks have settled.
C9_Witness ==
    /\ ~ merge_pending
    /\ merged_data_store = None
    /\ outbound_upload_status.kind = "Error"
    /\ inbound_data_store # None
    /\ inbound_data_store[1].columns = InboundColumns
    /\ inbound_data_store[1].data # <<>>

-----------------------------------------------------------------------------
(* Properties of parse_contents.                                           *)

Run1Result == run1[1].result

\* The rows of a parse result for one location and one month.
RowsFor(result, loc, month) ==
    {r \in Range(result.df[1].rows) : r.Location = loc /\ r.YearMonth.month = month}

\* The (data row, data column) pairs of an outbound grid that are a record
\* of `loc` and `month` with a kit count above zero.
OutboundRecordsOf(grid, loc, month) ==
    {jc \in (3..Len(grid)) \X (5..Len(grid[2])) :
        /\ grid[jc[1]][2] = loc
        /\ IntOfFloat(grid[1][jc[2]]) = [kind |-> "int", n |-> month]
        /\ to_numeric_fillna0(grid[jc[1]][jc[2]]) > 0}

\* C4: when a location and month have a single outbound record, of a kit D
\* the catalog knows and of count n > 0, the normalized rows of that location
\* and month are n * qty(t) tubes for each tube type t of D, and nothing else. 
C4_KitDecomposition ==
    (run1 # None /\ Branch(filename) = "outbound" /\ Run1Result.err = None) =>
        \A loc \in Locations, month \in 1..12 :
            LET recs == OutboundRecordsOf(contents, loc, month)
            IN  Cardinality(recs) = 1 =>
                    LET jc == CHOOSE x \in recs : TRUE
                        D == contents[2][jc[2]]
                        n == to_numeric_fillna0(contents[jc[1]][jc[2]])
                    IN  KitInCatalog(D) =>
                            {<<r.TubeType, r.Value>> :
                                r \in RowsFor(Run1Result, loc, month)}
                            = {<<t, n * kit_to_tube(D)[t]>> :
                                t \in DOMAIN kit_to_tube(D)}

\* The example: 3 kits of {ACD: 2, Blue: 1} give ACD = 6 and Blue = 3, and no
\* Lav or SST row.
C4_Witness ==
    /\ run1 # None
    /\ Branch(filename) = "outbound"
    /\ Run1Result.err = None
    /\ OutboundRecordsOf(contents, "Loc A", 1) = {<<3, 5>>}
    /\ contents[2][5] = KitAB
    /\ contents[3][5] = "3"
    /\ {<<r.TubeType, r.Value>> : r \in RowsFor(Run1Result, "Loc A", 1)}
           = {<<"ACD", 6>>, <<"Blue", 3>>}

\* The data columns of an outbound grid whose kit is not in the catalog.
UnknownKitColumns(grid) ==
    {c \in 5..Len(grid[2]) : ~ KitInCatalog(grid[2][c])}

\* The grid with every count of an unknown kit's column replaced by "0".
ZeroUnknownKits(grid) ==
    [j \in 1..Len(grid) |->
        [c \in 1..Len(grid[j]) |->
            IF j >= 3 /\ c \in UnknownKitColumns(grid) THEN "0" ELSE grid[j][c]]]

\* An outbound grid with both header rows, a data row, the four ID columns
\* and a data column whose month token is a number without a sign.
WellFormedOutbound(grid) ==
    /\ Len(grid) >= 3
    /\ Len(grid[2]) > 4
    /\ \E c \in 5..Len(grid[2]) :
           IntOfFloat(grid[1][c]).kind = "int" /\ IntOfFloat(grid[1][c]).n >= 0
    /\ \A c \in 5..Len(grid[2]) : IntOfFloat(grid[1][c]).kind # "OverflowError"

\* C5: a data column whose kit description is not in the catalog adds no
\* tubes to any tube type (the result is that of the same file with zero
\* counts in the column) and causes no error, also when every data column is
\* unknown to the catalog.
C5_UnknownKitLeniency ==
    ( /\ run1 # None
      /\ Branch(filename) = "outbound"
      /\ Len(contents) >= 2
      /\ UnknownKitColumns(contents) # {} ) =>
        /\ Run1Result =
               parse_contents(ZeroUnknownKits(contents), filename, run1[1].year)
        /\ WellFormedOutbound(contents) => Run1Result.err = None
        /\ ( /\ WellFormedOutbound(contents)
             /\ UnknownKitColumns(contents) = 5..Len(contents[2]) )
           => Run1Result.df[1].rows = <<>>

\* A file whose data columns are all unknown to the catalog, with a count
\* above zero in one of them, parsed without an error.
C5_Witness ==
    /\ run1 # None
    /\ Branch(filename) = "outbound"
    /\ WellFormedOutbound(contents)
    /\ UnknownKitColumns(contents) = 5..Len(contents[2])
    /\ \E j \in 3..Len(contents), c \in 5..Len(contents[2]) :
           to_numeric_fillna0(contents[j][c]) > 0
    /\ Run1Result.err = None

\* C6: a filename that contains "out_" and ends with ".csv" is processed as
\* outbound, one that contains "in_" and ends with ".csv" is processed as
\* inbound, and any other filename is rejected as unsupported with no rows.
C6_FilenameDispatch ==
    run1 # None =>
        /\ (StrContains(filename, OUT_) /\ StrEndsWith(filename, DOT_CSV))
               => Run1Result = parse_outbound(contents, run1[1].year)
        /\ (StrContains(filename, IN_) /\ StrEndsWith(filename, DOT_CSV))
               => Run1Result = parse_inbound(contents)
        /\ ( ~ (StrContains(filename, OUT_) /\ StrEndsWith(filename, DOT_CSV))
             /\ ~ (StrContains(filename, IN_) /\ StrEndsWith(filename, DOT_CSV)) )
               => Run1Result = ParseErr(ErrUnsupportedFileName)

\* The year of every Timestamp of a parse result replaced by `year`.
WithYear(result, year) ==
    IF result.df = None THEN result
    ELSE [df |-> Some([columns |-> result.df[1].columns,
                       rows |-> [i \in 1..Len(result.df[1].rows) |->
                           [result.df[1].rows[i] EXCEPT !.YearMonth.year = year]]]),
          err |-> result.err]

\* C10 as stated: two runs of parse_contents on the same bytes and filename
\* give the same result, whatever happens in between.
C10_Idempotent ==
    (run1 # None /\ run2 # None) => run1[1].result = run2[1].result

\* C10 as amended: the two results are the same when the file is not
\* processed as outbound or both runs happen in the same year; two outbound
\* runs in different years differ only in the year of YearMonth.
C10_IdempotentWithinYear ==
    (run1 # None /\ run2 # None) =>
        /\ (Branch(filename) # "outbound" \/ run1[1].year = run2[1].year)
               => run1[1].result = run2[1].result
        /\ Branch(filename) = "outbound"
               => WithYear(run1[1].result, run2[1].year) = run2[1].result

\* An outbound file with rows parsed in two different years: the results
\* differ, and only in the year.
C10_Witness ==
    /\ run1 # None
    /\ run2 # None
    /\ run1[1].year # run2[1].year
    /\ Branch(filename) = "outbound"
    /\ run2[1].result.err = None
    /\ run2[1].result.df[1].rows # <<>>
    /\ run1[1].result # run2[1].result
    /\ WithYear(run1[1].result, run2[1].year) = run2[1].result

-----------------------------------------------------------------------------
(* The worked example, from the two uploads to the reconciled table.       *)

\* Both widgets hold the files of the worked example and the callbacks have
\* settled.
ScenarioUploaded ==
    /\ ~ merge_pending
    /\ upload_outbound_data = Some(OutFileScenario)
    /\ upload_inbound_data = Some(InFileScenario)

\* The reconciled row of the worked example, whatever its year.
ScenarioRow(r) ==
    /\ r.Location = "Loc A"
    /\ r.YearMonth[2] = 1
    /\ r.TubeType = "ACD"
    /\ r.TubesSent = 10
    /\ r.SamplesReturned = 3
    /\ r.RemainingKits = 7

\* C11 as stated: the two files of the worked example reconcile to the single
\* row ("Loc A", January, ACD) with TubesSent = 10, SamplesReturned = 3 and
\* remaining = 7.
C11_Scenario ==
    ScenarioUploaded =>
        /\ merged_data_store # None
        /\ Len(MergedData) = 1
        /\ ScenarioRow(MergedData[1])

\* C11 as amended: the outbound file parses to ("Loc A", January of the year
\* it is parsed in, ACD, 10) and the inbound file to ("Loc A", 2025-01, ACD,
\* 3); parsed in 2025 they reconcile to the single row 10, 3, 7, and parsed
\* in another year to the two rows 2025-01: 0, 3, -3 and January of that
\* year: 10, 0, 10.
C11_ScenarioInYear ==
    ScenarioUploaded =>
        /\ outbound_data_store # None
        /\ inbound_data_store # None
        /\ merged_data_store # None
        /\ LET sent == outbound_data_store[1].data
               back == inbound_data_store[1].data
               year == sent[1].YearMonth[1]
           IN  /\ Len(sent) = 1
               /\ sent[1] = [Location |-> "Loc A", YearMonth |-> <<year, 1, 1>>,
                             TubeType |-> "ACD", Value |-> 10]
               /\ year \in Years
               /\ back = << [Location |-> "Loc A", YearMonth |-> <<2025, 1, 1>>,
                             TubeType |-> "ACD", Value |-> 3] >>
               /\ year = 2025 =>
                      /\ Len(MergedData) = 1
                      /\ ScenarioRow(MergedData[1])
                      /\ MergedData[1].YearMonth = <<2025, 1, 1, 0, 0, 0>>
               /\ year # 2025 =>
                      /\ Len(MergedData) = 2
                      /\ MergedData[1].YearMonth = <<2025, 1, 1, 0, 0, 0>>
                      /\ MergedData[1].TubesSent = 0
                      /\ MergedData[1].SamplesReturned = 3
                      /\ MergedData[1].RemainingKits = -3
                      /\ MergedData[2].YearMonth = <<year, 1, 1, 0, 0, 0>>
                      /\ MergedData[2].TubesSent = 10
                      /\ MergedData[2].SamplesReturned = 0
                      /\ MergedData[2].RemainingKits = 10

\* The worked example with the outbound file parsed in 2025: one row, 10 - 3.
C11_Witness ==
    /\ ScenarioUploaded
    /\ merged_data_store # None
    /\ Len(MergedData) = 1
    /\ ScenarioRow(MergedData[1])
    /\ MergedData[1].YearMonth = <<2025, 1, 1, 0, 0, 0>>

-----------------------------------------------------------------------------
(* The order of the reconciled table.                                      *)

\* a <= b for two ISO date strings, field by field.
IsoLeq(a, b) ==
    \/ a[1] < b[1]
    \/ a[1] = b[1] /\ a[2] < b[2]
    \/ a[1] = b[1] /\ a[2] = b[2] /\ a[3] <= b[3]

\* (YearMonth, Location, TubeType) of a is lexicographically <= that of b.
TripleLeq(a, b) ==
    \/ a.YearMonth # b.YearMonth /\ IsoLeq(a.YearMonth, b.YearMonth)
    \/ a.YearMonth = b.YearMonth /\ StrRank(a.Location) < StrRank(b.Location)
    \/ a.YearMonth = b.YearMonth /\ a.Location = b.Location
       /\ StrRank(a.TubeType) <= StrRank(b.TubeType)

\* C12: the rows merge_data stores are in ascending order of YearMonth, then
\* Location, then TubeType: each row's triple is <= that of the next row.
C12_SortedOutput ==
    merged_data_store # None =>
        \A i \in 1..(Len(MergedData) - 1) :
            TripleLeq(MergedData[i], MergedData[i + 1])

\* A reconciled table where the month decides against the location: a row of
\* a later location comes before a row of an earlier location and later month.
C12_Witness ==
    /\ ~ merge_pending
    /\ merged_data_store # None
    /\ \E i \in 1..(Len(MergedData) - 1) :
           /\ MergedData[i].YearMonth # MergedData[i + 1].YearMonth
           /\ StrRank(MergedData[i].Location) > StrRank(MergedData[i + 1].Location)

-----------------------------------------------------------------------------
(* Properties of the errors of parse_contents.                             *)

\* An error that reports a required column as missing.
IsMissingColumnError(e) ==
    \/ e = ErrInboundMissingYearMonth
    \/ \E i \in 1..Len(required_outbound_cols) :
           e = ErrOutboundMissingColumn(required_outbound_cols[i])

\* C13: the inbound parser fails with a missing-required-column error, and
\* returns no rows, whenever the year-month, the location-id or the territory
\* column is absent from the header after renaming (the location, tube type
\* and count columns being there).
C13_InboundRequiredColumns ==
    ( /\ run1 # None
      /\ Branch(filename) = "inbound"
      /\ contents # <<>>
      /\ \A col \in {"Location", "TubeType", "Count"} :
             HasColumn(InboundHeader(contents), col)
      /\ \E col \in {"YearMonth", "LID", "Territory"} :
             ~ HasColumn(InboundHeader(contents), col) ) =>
        /\ Run1Result.df = None
        /\ Run1Result.err # None
        /\ IsMissingColumnError(Run1Result.err[1])

\* C14: the outbound parser fails with the missing-required-column error
\* that names the column whenever one of the four identity columns (Order_ID,
\* Location, Location_Code, SalesRep) is absent after renaming, and never
\* returns that error when the four are there.  The columns are renamed by
\* position, so the k-th identity column is absent exactly when the file has
\* fewer than k columns.
C14_OutboundRequiredColumns ==
    ( /\ run1 # None
      /\ Branch(filename) = "outbound"
      /\ Len(contents) >= 2 ) =>
        LET width == Len(contents[2])
        IN  /\ width < Len(required_outbound_cols) =>
                   /\ Run1Result.df = None
                   /\ Run1Result.err =
                          Some(ErrOutboundMissingColumn(required_outbound_cols[width + 1]))
            /\ width >= Len(required_outbound_cols) =>
                   \/ Run1Result.err = None
                   \/ ~ IsMissingColumnError(Run1Result.err[1])

C16_NoKitColumns ==
    ( /\ run1 # None
      /\ Branch(filename) = "outbound"
      /\ Len(contents) >= 2
      /\ Len(contents[2]) >= Len(fixed_id_cols_names) ) =>
        ( Run1Result = ParseErr(ErrNoMonthColumns)
          <=> ~ \E c \in (Len(fixed_id_cols_names) + 1)..Len(contents[2]) :
                  IntOfFloat(contents[1][c]).kind = "int" )

-----------------------------------------------------------------------------
(* Properties of the rows parse_contents returns.                          *)

Run1Rows == Run1Result.df[1].rows

\* C17: every row either parser returns has a tube type among ACD, Blue, Lav
\* and SST; an inbound row of another tube type is dropped.
C17_TubeTypeInFixedSet ==
    (run1 # None /\ Run1Result.err = None) =>
        \A i \in 1..Len(Run1Rows) : Run1Rows[i].TubeType \in Range(TubeTypes)

\* C18: the metric of every row either parser returns is non-negative:
\* SamplesReturned >= 0 in every inbound row, TubesSent > 0 in every outbound
\* row.
C18_MetricNonNegative ==
    (run1 # None /\ Run1Result.err = None) =>
        \A i \in 1..Len(Run1Rows) :
            /\ Run1Rows[i].Value >= 0
            /\ Branch(filename) = "outbound" => Run1Rows[i].Value > 0

\* A month token that is an integer from 1 to 12.
ValidMonthToken(token) ==
    IntOfFloat(token).kind = "int" /\ IntOfFloat(token).n \in 1..12

\* A compact year-month cell that is a valid YYYYMM.
ValidYearMonthCell(cell) ==
    cell \in DOMAIN YearMonthDigits /\ YearMonthDigits[cell][2] \in 1..12

\* The outbound grid without the data columns whose month token is not valid.
WithoutBadMonthColumns(grid) ==
    LET keep == SelectSeq([c \in 1..Len(grid[2]) |-> c],
                    LAMBDA c : c <= Len(fixed_id_cols_names)
                               \/ ValidMonthToken(grid[1][c]))
    IN  [j \in 1..Len(grid) |-> [k \in 1..Len(keep) |-> grid[j][keep[k]]]]

\* The inbound grid without the data rows whose YearMonth is not valid.
WithoutBadMonthRows(grid) ==
    LET ym == ColumnIndex(InboundHeader(grid), "YearMonth")
        data == SelectSeq([j \in 1..(Len(grid) - 1) |-> grid[j + 1]],
                    LAMBDA row : ValidYearMonthCell(row[ym]))
    IN  <<grid[1]>> \o data

\* C19: a month that cannot be parsed is never an error of the whole file.
\* An outbound file with a column of a valid month parses without an error
\* to what it gives without its columns of a non-numeric, out-of-range or
\* non-finite month token, and every row has the month of a valid column; an
\* inbound file parses without an error to what it gives without its rows of
\* an invalid YYYYMM.
C19_BadMonthIsNotAnError ==
    run1 # None =>
        /\ ( /\ Branch(filename) = "outbound"
             /\ Len(contents) >= 2
             /\ \E c \in (Len(fixed_id_cols_names) + 1)..Len(contents[2]) :
                    ValidMonthToken(contents[1][c]) ) =>
               /\ Run1Result.err = None
               /\ Run1Result = parse_contents(WithoutBadMonthColumns(contents),
                                              filename, run1[1].year)
               /\ \A i \in 1..Len(Run1Rows) :
                      \E c \in (Len(fixed_id_cols_names) + 1)..Len(contents[2]) :
                          /\ ValidMonthToken(contents[1][c])
                          /\ IntOfFloat(contents[1][c]).n = Run1Rows[i].YearMonth.month
        /\ ( /\ Branch(filename) = "inbound"
             /\ contents # <<>>
             /\ \A col \in {"Location", "YearMonth", "TubeType", "Count"} :
                    HasColumn(InboundHeader(contents), col) ) =>
               /\ Run1Result.err = None
               /\ Run1Result = parse_contents(WithoutBadMonthRows(contents),
                                              filename, run1[1].year)

-----------------------------------------------------------------------------
(* The location id and the territory of a reconciled row.                  *)

\* The value of column `col` in row i of the merged table; None for a column
\* the table does not have.
MergedCell(i, col) ==
    IF col \notin Range(merged_data_store[1].columns) THEN None
    ELSE CASE col = "Location" -> Some(MergedData[i].Location)
           [] col = "YearMonth" -> Some(MergedData[i].YearMonth)
           [] col = "TubeType" -> Some(MergedData[i].TubeType)
           [] col = "TubesSent" -> Some(MergedData[i].TubesSent)
           [] col = "SamplesReturned" -> Some(MergedData[i].SamplesReturned)
           [] col = "RemainingKits" -> Some(MergedData[i].RemainingKits)
           [] col = "YearMonth_Display" -> Some(MergedData[i].YearMonth_Display)

\* The cells of column `col` in the rows of the uploaded inbound file that
\* belong to a key.
InboundCellsOf(key, col) ==
    LET grid == upload_inbound_data[1].grid
        header == InboundHeader(grid)
    IN  IF ~ HasColumn(header, col) THEN {}
        ELSE { grid[j][ColumnIndex(header, col)] : j \in
                 { j \in 2..Len(grid) :
                     /\ grid[j][ColumnIndex(header, "Location")] = key[1]
                     /\ to_datetime_Ym(grid[j][ColumnIndex(header, "YearMonth")])
                            = Some(to_datetime_str(key[2]))
                     /\ grid[j][ColumnIndex(header, "TubeType")] = key[3] } }

\* The cells of ID column `pos` in the rows of the uploaded outbound file
\* that belong to the location of a key.
OutboundCellsOf(key, pos) ==
    LET grid == upload_outbound_data[1].grid
    IN  { grid[j][pos] : j \in { j \in 3..Len(grid) : grid[j][2] = key[1] } }

\* The value the inbound rows give, else the one the outbound rows give.
Resolved(cell, inbound, outbound) ==
    /\ inbound # {} => cell \in {Some(x) : x \in inbound}
    /\ (inbound = {} /\ outbound # {}) => cell \in {Some(x) : x \in outbound}
    /\ (inbound = {} /\ outbound = {}) => cell = None

\* C20: in every reconciled row the location id is the id the inbound file
\* gives for the key, else the one of the outbound ID column, else null, and
\* the territory is the inbound territory, else the outbound territory.
C20_IdAndTerritoryResolved ==
    (Reconciled /\ merged_data_store # None) =>
        \A i \in 1..Len(MergedData) :
            LET key == MergedKey(MergedData[i])
            IN  /\ Resolved(MergedCell(i, "LID"),
                            InboundCellsOf(key, "LID"), OutboundCellsOf(key, 1))
                /\ Resolved(MergedCell(i, "Territory"),
                            InboundCellsOf(key, "Territory"), OutboundCellsOf(key, 3))

-----------------------------------------------------------------------------
(* One row per key in a parser's output.                                   *)

\* The tubes of type t that cell (j, c) of an outbound grid sends to `loc`
\* in `month`: count * qty for a count above zero of a catalogued kit.
OutboundContribution(grid, j, c, loc, month, t) ==
    LET kit == grid[2][c]
        count == to_numeric_fillna0(grid[j][c])
    IN  IF /\ grid[j][2] = loc
           /\ ValidMonthToken(grid[1][c])
           /\ IntOfFloat(grid[1][c]).n = month
           /\ count > 0
           /\ t \in DOMAIN kit_to_tube(kit)
        THEN count * kit_to_tube(kit)[t]
        ELSE 0

\* The data cells of an outbound grid that send tubes of type t to `loc` in
\* `month`.
OutboundContributors(grid, loc, month, t) ==
    { jc \in (3..Len(grid)) \X ((Len(fixed_id_cols_names) + 1)..Len(grid[2])) :
        OutboundContribution(grid, jc[1], jc[2], loc, month, t) > 0 }

\* All that an outbound grid sends to `loc` in `month` of tube type t.
OutboundTotal(grid, loc, month, t) ==
    SumSeq(FlattenSeq([j \in 1..(Len(grid) - 2) |->
        [c \in 1..(Len(grid[2]) - Len(fixed_id_cols_names)) |->
            OutboundContribution(grid, j + 2, c + Len(fixed_id_cols_names),
                                 loc, month, t)]]))

\* The data rows of an inbound grid that are observations of a key.
InboundContributors(grid, key) ==
    LET header == InboundHeader(grid)
    IN  { j \in 2..Len(grid) :
            /\ grid[j][ColumnIndex(header, "Location")] = key[1]
            /\ ValidYearMonthCell(grid[j][ColumnIndex(header, "YearMonth")])
            /\ YearMonthDigits[grid[j][ColumnIndex(header, "YearMonth")]]
                   = <<key[2].year, key[2].month>>
            /\ grid[j][ColumnIndex(header, "TubeType")] = key[3] }

\* All that an inbound grid reports as returned for a key.
InboundTotal(grid, key) ==
    LET header == InboundHeader(grid)
    IN  SumSeq([j \in 1..(Len(grid) - 1) |->
            IF (j + 1) \in InboundContributors(grid, key)
            THEN to_numeric_fillna0(grid[j + 1][ColumnIndex(header, "Count")])
            ELSE 0])

\* C22: a parser's output has at most one row per (Location, YearMonth,
\* TubeType), and the row's metric is the sum over every record of the file
\* for the key: every kit column and every data row of the outbound file
\* that sends the tube type to the location in the month, every observation
\* of the inbound file.
C22_OneRowPerKeySummed ==
    (run1 # None /\ Run1Result.err = None) =>
        /\ \A i, j \in 1..Len(Run1Rows) :
               KeyOf(Run1Rows[i]) = KeyOf(Run1Rows[j]) => i = j
        /\ Branch(filename) = "outbound" =>
               /\ \A i \in 1..Len(Run1Rows) :
                      /\ Run1Rows[i].YearMonth.year = run1[1].year
                      /\ Run1Rows[i].Value =
                             OutboundTotal(contents, Run1Rows[i].Location,
                                           Run1Rows[i].YearMonth.month,
                                           Run1Rows[i].TubeType)
               /\ \A loc \in Locations, month \in 1..12, t \in Range(TubeTypes) :
                      OutboundTotal(contents, loc, month, t) > 0 =>
                          \E i \in 1..Len(Run1Rows) :
                              /\ Run1Rows[i].Location = loc
                              /\ Run1Rows[i].YearMonth.month = month
                              /\ Run1Rows[i].TubeType = t
        /\ Branch(filename) = "inbound" =>
               /\ \A i \in 1..Len(Run1Rows) :
                      /\ InboundContributors(contents, KeyOf(Run1Rows[i])) # {}
                      /\ Run1Rows[i].Value = InboundTotal(contents, KeyOf(Run1Rows[i]))

\* Two kit descriptions of the same month collapse into one row of a tube
\* type, with the sum of what each sends.
C22_Witness ==
    /\ run1 # None
    /\ Run1Result.err = None
    /\ Branch(filename) = "outbound"
    /\ \E i \in 1..Len(Run1Rows) :
           LET cells == OutboundContributors(contents, Run1Rows[i].Location,
                                             Run1Rows[i].YearMonth.month,
                                             Run1Rows[i].TubeType)
           IN  /\ \E a, b \in cells : contents[2][a[2]] # contents[2][b[2]]
               /\ Run1Rows[i].Value > 6

-----------------------------------------------------------------------------
(* generate_alerts: the unused-tube alerts under the reconciled table.     *)

AlertUploadData == [kind |-> "Upload data to see unused tube sample alerts.",
                    threshold |-> <<>>, items |-> <<>>]
AlertInvalidThreshold ==
    [kind |-> "Please enter a valid positive threshold for alerts.",
     threshold |-> <<>>, items |-> <<>>]
\* f"No clients with more than {int(threshold)} unused tube samples found."
AlertNoneFound(threshold) ==
    [kind |-> "No clients with more than", threshold |-> <<threshold>>, items |-> <<>>]
\* The heading and one list item for each row of alerts_df.
AlertList(items) ==
    [kind |-> "Clients with Significant Unused Tube Samples:",
     threshold |-> <<>>, items |-> items]

AlertKeyOf(row) == <<row.Location, row.YearMonth_Display>>

\* The order of the groups of groupby(['Location', 'YearMonth_Display']).
AlertKeyLess(a, b) ==
    \/ StrRank(a[1]) < StrRank(b[1])
    \/ a[1] = b[1] /\ a[2][1] < b[2][1]
    \/ a[1] = b[1] /\ a[2][1] = b[2][1] /\ a[2][2] < b[2][2]

RECURSIVE SortAlertKeys(_)
SortAlertKeys(keys) ==
    IF keys = {} THEN <<>>
    ELSE LET least == CHOOSE k \in keys : \A other \in keys \ {k} : AlertKeyLess(k, other)
         IN  <<least>> \o SortAlertKeys(keys \ {least})

\* df[df['RemainingKits'] > threshold]
OverThreshold(rows, threshold) ==
    SelectSeq(rows, LAMBDA r : r.RemainingKits > threshold)

\* .groupby(['Location', 'YearMonth_Display']).agg(TotalUnusedKits=
\* ('RemainingKits', 'sum')).reset_index()
TotalUnusedKits(rows) ==
    LET keys == SortAlertKeys({AlertKeyOf(rows[i]) : i \in 1..Len(rows)})
    IN  [k \in 1..Len(keys) |->
            [Location |-> keys[k][1],
             YearMonth_Display |-> keys[k][2],
             TotalUnusedKits |->
                 SumSeq([i \in 1..Len(rows) |->
                            IF AlertKeyOf(rows[i]) = keys[k]
                            THEN rows[i].RemainingKits ELSE 0])]]

RECURSIVE InsertDescending(_, _)
InsertDescending(item, sorted) ==
    IF sorted = <<>> THEN <<item>>
    ELSE IF item.TotalUnusedKits >= Head(sorted).TotalUnusedKits
         THEN <<item>> \o sorted
         ELSE <<Head(sorted)>> \o InsertDescending(item, Tail(sorted))

\* sort_values(by=['TotalUnusedKits'], ascending=False); equal totals keep
\* the order of the groups.
RECURSIVE sort_descending(_)
sort_descending(items) ==
    IF items = <<>> THEN <<>>
    ELSE InsertDescending(Head(items), sort_descending(Tail(items)))

\* What generate_alerts returns for the store and the threshold input.
generate_alerts(jsonified_data, threshold) ==
    IF jsonified_data = None THEN AlertUploadData
    ELSE IF threshold = None \/ threshold[1] < 0 THEN AlertInvalidThreshold
    ELSE LET df == jsonified_data[1].data
             alerts_df == sort_descending(
                              TotalUnusedKits(OverThreshold(df, threshold[1])))
         IN  IF alerts_df = <<>>
             THEN AlertNoneFound(threshold[1])
             ELSE AlertList(alerts_df)

\* An outbound file for the direct-to-consumer channel, and a file that
\* sends two tube types to one client in one month.
OutFileDtc ==
    UploadFile(OutboundGrid(<<Col("1.00", KitA)>>,
                            <<[loc |-> "DTC Channel", cells |-> <<"5">>]>>), FN_out)
OutFileTwoClients ==
    UploadFile(OutboundGrid(<<Col("1.00", KitA), Col("2.00", KitAB)>>,
                            <<[loc |-> "Loc A", cells |-> <<"5", "3">>],
                              [loc |-> "Loc B", cells |-> <<"3", "1">>]>>), FN_out)

AlertOutboundUploads == OutboundUploads \cup {OutFileDtc, OutFileTwoClients}

\* What the threshold input can hold: nothing, or a whole number.
Thresholds == {None, Some(-1), Some(0), Some(2), Some(5), Some(7),
               Some(default_threshold)}

\* The page after the files of both sides, if any, were uploaded (the
\* inbound side last) and merge_data has run.
AlertsInit ==
    /\ now_year \in Years
    /\ \E o \in {None} \cup {Some(f) : f \in AlertOutboundUploads},
          i \in {None} \cup {Some(f) : f \in InboundUploads} :
          LET out == IF o = None
                     THEN [json |-> None, status |-> StatusNoOutbound]
                     ELSE UploadOutcome("Outbound", o[1].grid, o[1].name, now_year, None)
              inb == IF i = None
                     THEN [json |-> None, status |-> StatusNoInbound]
                     ELSE UploadOutcome("Inbound", i[1].grid, i[1].name, now_year, None)
              m == merge_data(out.json, inb.json)
          IN  /\ upload_outbound_data = o
              /\ upload_inbound_data = i
              /\ outbound_data_store = out.json
              /\ inbound_data_store = inb.json
              /\ outbound_upload_status =
                     IF i = None THEN out.status ELSE StatusBlank
              /\ inbound_upload_status =
                     IF i = None /\ o # None THEN StatusBlank ELSE inb.status
              /\ merged_data_store = m.data
              /\ merge_status = m.status
    /\ merge_pending = FALSE
    /\ ParseIdle
    /\ AlertIdle
    /\ LoginIdle

\* The callback's first call, when the page is laid out or the store is set.
GenerateAlertsInitial ==
    /\ unused_kit_alerts = None
    /\ unused_kit_alerts' = Some(generate_alerts(merged_data_store, alert_threshold_input))
    /\ UNCHANGED <<now_year, appVars, parseVars, alert_threshold_input, loginVars>>

\* The user edits the threshold: the callback runs on the new value.
GenerateAlertsOnThreshold ==
    /\ unused_kit_alerts # None
    /\ \E threshold \in Thresholds \ {alert_threshold_input} :
           /\ alert_threshold_input' = threshold
           /\ unused_kit_alerts' = Some(generate_alerts(merged_data_store, threshold))
    /\ UNCHANGED <<now_year, appVars, parseVars, loginVars>>

AlertsNext == GenerateAlertsInitial \/ GenerateAlertsOnThreshold

SpecAlerts == AlertsInit /\ [][AlertsNext]_vars

-----------------------------------------------------------------------------
(* Properties of the alerts.                                               *)

AlertsShown == unused_kit_alerts[1]

\* The clients of the reconciled table: (Location, month).
Clients == {AlertKeyOf(MergedData[i]) : i \in 1..Len(MergedData)}

\* A client's unused tubes: RemainingKits summed over all its rows.
ClientTotal(client) ==
    SumSeq([i \in 1..Len(MergedData) |->
               IF AlertKeyOf(MergedData[i]) = client
               THEN MergedData[i].RemainingKits ELSE 0])

LowerCased ==
    [loc \in {"Loc A", "Loc B", "DTC Channel"} |->
        IF loc = "Loc A" THEN <<"l", "o", "c", " ", "a">>
        ELSE IF loc = "Loc B" THEN <<"l", "o", "c", " ", "b">>
        ELSE <<"d", "t", "c", " ", "c", "h", "a", "n", "n", "e", "l">>]

\* The exclusion marker "DTC", lower-cased.
exclude_marker == <<"d", "t", "c">>

\* The location contains the exclusion marker, whatever the case.
ContainsMarker(loc) == StrContains(LowerCased[loc], exclude_marker)

\* A location's unused tubes over all months.
LocationTotal(loc) ==
    SumSeq([i \in 1..Len(MergedData) |->
               IF MergedData[i].Location = loc
               THEN MergedData[i].RemainingKits ELSE 0])

\* C21: the per-location summary shown under the reconciled table leaves
\* out every location that contains the exclusion marker, has one entry per
\* location holding the sum of the remaining tubes over all months, and is
\* in descending order of that total.
C21_SummaryExcludesMarker ==
    (merged_data_store # None /\ unused_kit_alerts # None) =>
        LET items == AlertsShown.items
        IN  /\ \A k \in 1..Len(items) : ~ ContainsMarker(items[k].Location)
            /\ \A k, l \in 1..Len(items) :
                   items[k].Location = items[l].Location => k = l
            /\ \A k \in 1..Len(items) :
                   items[k].TotalUnusedKits = LocationTotal(items[k].Location)
            /\ \A k \in 1..(Len(items) - 1) :
                   items[k].TotalUnusedKits >= items[k + 1].TotalUnusedKits

-----------------------------------------------------------------------------
(* app.py: the login gate.  display_page routes every pathname through the *)
(* login status; authenticate sets the status from the password.           *)

VALID_PASSWORD_HASH == "469c34f452736efd07e97f4e3893cb445b179b00ce0871bf329af3a7f97b5095"

\* What the password field can hold: nothing typed (None), the empty
\* string, the password of the dashboard, and two other strings.
ThePassword == "the password"
Passwords == {None, Some(""), Some(ThePassword), Some("guess"), Some("the password ")}

\* hashlib.sha256(password.encode('utf-8')).hexdigest(): only the password
\* of the dashboard has the digest VALID_PASSWORD_HASH.
sha256_hexdigest(password) ==
    IF password = ThePassword THEN VALID_PASSWORD_HASH
    ELSE IF password = "guess" THEN "digest of 'guess'"
    ELSE "digest of 'the password '"

\* dash.no_update for an output; an updated output x is <<x>>.
no_update == <<>>

LoginLayout == "login_page.layout"
MonthlyLayout == "monthly_breakdown.layout"
MergerLayout == "single_month_merger.layout"
RedirectAfterLogin == "dcc.Location(pathname='/single-month-merger', id='redirect-after-login')"
DefaultRedirect == "dcc.Location(pathname='/single-month-merger', id='default-redirect')"
\* html.Div(id='page-content') before display_page's first call
EmptyContent == "no children"

MsgIncorrect == "Incorrect password. Please try again."
MsgEnterPassword == "Please enter a password."

\* Any login data that is there counts as a signed-in session.
LoggedIn_AnyData(login_data) == login_data # None

\* login_data and login_data.get('logged_in', False); the data is None,
\* the dict {} (<<>>), or a dict with the key.
LoggedIn(login_data) ==
    /\ login_data # None
    /\ "logged_in" \in DOMAIN login_data[1]
    /\ login_data[1].logged_in

\* display_page's return for the pathname /logout, with the login status
\* left as it is.
LogoutResult_KeepsStatus ==
    [content |-> LoginLayout, navbar |-> "none", login_status |-> no_update]

\* display_page's return for the pathname /logout.
LogoutResult ==
    [content |-> LoginLayout, navbar |-> "none",
     login_status |-> Some([logged_in |-> FALSE])]

\* What display_page returns: page-content children, navbar-container
\* display, login-status data.
display_page(pathname, login_data) ==
    LET logged_in == LoggedIn(login_data)
        navbar_style_ == IF logged_in THEN "block" ELSE "none"
    IN  IF pathname = "/logout"
        THEN LogoutResult
        ELSE IF ~ logged_in /\ pathname # "/login"
        THEN [content |-> LoginLayout, navbar |-> "none", login_status |-> no_update]
        ELSE IF pathname = "/monthly-trends"
        THEN [content |-> MonthlyLayout, navbar |-> navbar_style_, login_status |-> no_update]
        ELSE IF pathname = "/single-month-merger"
        THEN [content |-> MergerLayout, navbar |-> navbar_style_, login_status |-> no_update]
        ELSE IF pathname = "/login"
        THEN IF logged_in
             THEN [content |-> RedirectAfterLogin, navbar |-> navbar_style_,
                   login_status |-> no_update]
             ELSE [content |-> LoginLayout, navbar |-> "none", login_status |-> no_update]
        ELSE IF logged_in
             THEN [content |-> DefaultRedirect, navbar |-> navbar_style_,
                   login_status |-> no_update]
             ELSE [content |-> LoginLayout, navbar |-> "none", login_status |-> no_update]

\* authenticate's return for the right password, without the login status.
AuthenticatedResult_StatusNotSet ==
    [message |-> "", pathname |-> Some("/single-month-merger"), login_status |-> no_update]

\* authenticate's return for the right password.
AuthenticatedResult ==
    [message |-> "", pathname |-> Some("/single-month-merger"),
     login_status |-> Some([logged_in |-> TRUE])]

\* authenticate that takes any password that is not empty.
authenticate_AnyPassword(n_clicks, password) ==
    IF n_clicks > 0
    THEN IF password # None /\ password[1] # ""
         THEN AuthenticatedResult
         ELSE [message |-> MsgEnterPassword, pathname |-> no_update,
               login_status |-> Some([logged_in |-> FALSE])]
    ELSE [message |-> "", pathname |-> no_update, login_status |-> no_update]

\* What authenticate returns: login-message children, url pathname,
\* login-status data.
authenticate(n_clicks, password) ==
    IF n_clicks > 0
    THEN IF password # None /\ password[1] # ""
         THEN IF sha256_hexdigest(password[1]) = VALID_PASSWORD_HASH
              THEN AuthenticatedResult
              ELSE [message |-> MsgIncorrect, pathname |-> no_update,
                    login_status |-> Some([logged_in |-> FALSE])]
         ELSE [message |-> MsgEnterPassword, pathname |-> no_update,
               login_status |-> Some([logged_in |-> FALSE])]
    ELSE [message |-> "", pathname |-> no_update, login_status |-> no_update]

\* The paths a browser asks for: the routes of display_page, the root and
\* a path no route knows.
Pathnames == {"/", "/login", "/logout", "/monthly-trends", "/single-month-merger",
              "/reports"}

\* Clicks on the login button between two renderings of the login form.
MaxClicks == 2

\* The browser loads the application at a path: the layout is built anew
\* and display_page is called; the login status is what the tab's session
\* storage holds.
Load(pathname) ==
    /\ url_pathname' = pathname
    /\ page_content' = EmptyContent
    /\ navbar_style' = "none"
    /\ login_message' = None
    /\ login_button_n_clicks' = 0
    /\ password_input' = None
    /\ display_pending' = TRUE

\* A new tab: dcc.Store(id='login-status', storage_type='session',
\* data={'logged_in': False}).
LoginInit ==
    /\ now_year = 2025
    /\ AppInit
    /\ merge_pending = TRUE
    /\ ParseIdle
    /\ AlertIdle
    /\ url_pathname \in Pathnames
    /\ login_status = Some([logged_in |-> FALSE])
    /\ page_content = EmptyContent
    /\ navbar_style = "none"
    /\ login_message = None
    /\ login_button_n_clicks = 0
    /\ password_input = None
    /\ display_pending = TRUE

\* The user types a path in the address bar, or reloads the page.
EnterUrl ==
    /\ \E pathname \in Pathnames : Load(pathname)
    /\ UNCHANGED <<now_year, appVars, parseVars, alertVars, login_status>>

\* A dcc.Link of the navbar: the pathname changes without a reload.
FollowLink ==
    /\ navbar_style = "block"
    /\ \E pathname \in {"/monthly-trends", "/single-month-merger"} \ {url_pathname} :
           url_pathname' = pathname
    /\ display_pending' = TRUE
    /\ UNCHANGED <<now_year, appVars, parseVars, alertVars, login_status, page_content,
                   navbar_style, login_message, login_button_n_clicks,
                   password_input>>

\* html.A("Logout", href="/logout"): a plain anchor, the browser loads
\* /logout.
ClickLogout ==
    /\ navbar_style = "block"
    /\ Load("/logout")
    /\ UNCHANGED <<now_year, appVars, parseVars, alertVars, login_status>>

\* A dcc.Location(pathname='/single-month-merger') rendered as page content
\* sends the browser there.
FollowRedirect ==
    /\ page_content \in {RedirectAfterLogin, DefaultRedirect}
    /\ Load("/single-month-merger")
    /\ UNCHANGED <<now_year, appVars, parseVars, alertVars, login_status>>

\* The display_page callback runs on the pathname and the login status as
\* they are now.  Its login-status output does not call it again.
DisplayPage ==
    /\ display_pending
    /\ LET r == display_page(url_pathname, login_status)
       IN  /\ page_content' = r.content
           /\ navbar_style' = r.navbar
           /\ login_status' = IF r.login_status = no_update
                              THEN login_status ELSE r.login_status
    /\ login_message' = None
    /\ login_button_n_clicks' = 0
    /\ password_input' = None
    /\ display_pending' = FALSE
    /\ UNCHANGED <<now_year, appVars, parseVars, alertVars, url_pathname>>

\* The user types in the password field of the login form.
TypePassword ==
    /\ page_content = LoginLayout
    /\ \E password \in Passwords \ {None, password_input} : password_input' = password
    /\ UNCHANGED <<now_year, appVars, parseVars, alertVars, url_pathname, login_status,
                   page_content, navbar_style, login_message, login_button_n_clicks,
                   display_pending>>

\* A click on the login button: the authenticate callback, with the
\* password field as State.  Its url and login-status outputs call
\* display_page.
Authenticate ==
    LET r == authenticate(login_button_n_clicks + 1, password_input)
    IN  /\ page_content = LoginLayout
        /\ login_button_n_clicks < MaxClicks
        /\ login_button_n_clicks' = login_button_n_clicks + 1
        /\ login_message' = Some(r.message)
        /\ url_pathname' = IF r.pathname = no_update THEN url_pathname ELSE r.pathname[1]
        /\ login_status' = IF r.login_status = no_update THEN login_status ELSE r.login_status
        /\ display_pending' =
               (display_pending \/ r.pathname # no_update \/ r.login_status # no_update)
        /\ UNCHANGED <<now_year, appVars, parseVars, alertVars, page_content, navbar_style,
                       password_input>>

LoginNext ==
    \/ DisplayPage
    \/ TypePassword
    \/ Authenticate
    \/ EnterUrl
    \/ FollowLink
    \/ ClickLogout
    \/ FollowRedirect

SpecLogin == LoginInit /\ [][LoginNext]_vars

\* authenticate has just accepted the password: its outputs are applied
\* and display_page has not run on them yet.
Authenticated ==
    /\ display_pending
    /\ login_message = Some("")

\* The same steps, with a user who, once the password is accepted, waits
\* for the page before the next click or key.
SettledNext ==
    \/ DisplayPage
    \/ ~ Authenticated /\ TypePassword
    \/ ~ Authenticated /\ Authenticate
    \/ ~ Authenticated /\ EnterUrl
    \/ ~ Authenticated /\ FollowLink
    \/ ~ Authenticated /\ ClickLogout
    \/ ~ Authenticated /\ FollowRedirect

\* The renderer runs every callback it has been asked for.
SpecLoginSettled == LoginInit /\ [][SettledNext]_vars /\ WF_vars(DisplayPage)

-----------------------------------------------------------------------------
(* Properties of the login gate.                                           *)

\* The login data display_page can be handed: None, {}, and a dict with
\* the key logged_in.
LoginDatas == {None, Some(<<>>), Some([logged_in |-> TRUE]), Some([logged_in |-> FALSE])}

\* The login data says logged_in is true.
SignedIn(login_data) ==
    /\ login_data # None
    /\ DOMAIN login_data[1] = {"logged_in"}
    /\ login_data[1].logged_in = TRUE

\* Content only a signed-in session may see.
Protected == {MonthlyLayout, MergerLayout, RedirectAfterLogin, DefaultRedirect}

\* C24: for every pathname and login data, display_page returns protected
\* content or a visible navbar only if logged_in is true, and the login
\* page with the navbar hidden if it is false or absent; so in every
\* reachable state protected content or a visible navbar is on screen only
\* in a signed-in session, and a signed-out session whose display_page has
\* run sees the login page with the navbar hidden.
C24_LoginGating ==
    /\ \A pathname \in Pathnames, login_data \in LoginDatas :
           LET r == display_page(pathname, login_data)
           IN  /\ (r.content \in Protected \/ r.navbar = "block") => SignedIn(login_data)
               /\ ~ SignedIn(login_data) =>
                      r.content = LoginLayout /\ r.navbar = "none"
    /\ (page_content \in Protected \/ navbar_style = "block") => SignedIn(login_status)
    /\ (~ display_pending /\ ~ SignedIn(login_status)) =>
           page_content = LoginLayout /\ navbar_style = "none"

\* A signed-out session asked for the merger page and got the login page.
C24_Witness ==
    /\ url_pathname = "/single-month-merger"
    /\ ~ display_pending
    /\ ~ SignedIn(login_status)
    /\ page_content = LoginLayout
    /\ navbar_style = "none"

\* The last step was the authenticate callback.
AuthenticateStep == login_button_n_clicks' = login_button_n_clicks + 1

\* The last step was the display_page callback.
DisplayPageStep == display_pending /\ ~ display_pending'

\* The password field holds a non-empty password whose SHA-256 hex digest
\* is VALID_PASSWORD_HASH.
RightPassword ==
    /\ password_input # None
    /\ password_input[1] # ""
    /\ sha256_hexdigest(password_input[1]) = VALID_PASSWORD_HASH

\* C25: logged_in goes from false to true only in a step of authenticate
\* with a non-empty password whose digest is VALID_PASSWORD_HASH; a step of
\* authenticate with an empty or incorrect password sets logged_in to
\* false, shows a message and leaves the URL unchanged; no step of another
\* callback sets logged_in to true.
C25_OnlyAuthenticateSignsIn ==
    [][ /\ (~ SignedIn(login_status) /\ SignedIn(login_status')) =>
               (AuthenticateStep /\ RightPassword)
        /\ (AuthenticateStep /\ ~ RightPassword) =>
               /\ ~ SignedIn(login_status')
               /\ login_status' = Some([logged_in |-> FALSE])
               /\ login_message' \in {Some(MsgIncorrect), Some(MsgEnterPassword)}
               /\ url_pathname' = url_pathname
        /\ (~ AuthenticateStep) => (SignedIn(login_status') => SignedIn(login_status)) ]_vars

\* A wrong password was tried on the login form of a signed-out session.
C25_Witness ==
    /\ login_message = Some(MsgIncorrect)
    /\ password_input = Some("guess")
    /\ ~ SignedIn(login_status)
    /\ login_button_n_clicks > 0

\* C26: a step of display_page at the pathname /logout leaves logged_in
\* false and renders the login page with the navbar hidden, whatever the
\* state before; while logged_in is false, every step of display_page, at
\* any pathname, renders the login page with the navbar hidden and keeps
\* logged_in false; logged_in leaves false only by an authenticate step
\* with the right password.
C26_Logout ==
    [][ /\ (DisplayPageStep /\ url_pathname = "/logout") =>
               /\ login_status' = Some([logged_in |-> FALSE])
               /\ page_content' = LoginLayout
               /\ navbar_style' = "none"
        /\ (DisplayPageStep /\ ~ SignedIn(login_status)) =>
               /\ ~ SignedIn(login_status')
               /\ page_content' = LoginLayout
               /\ navbar_style' = "none"
        /\ (~ SignedIn(login_status) /\ ~ (AuthenticateStep /\ RightPassword)) =>
               ~ SignedIn(login_status') ]_vars

\* display_page has run at /logout: the session is signed out and sees
\* the login page.
C26_Witness ==
    /\ url_pathname = "/logout"
    /\ ~ display_pending
    /\ login_status = Some([logged_in |-> FALSE])
    /\ page_content = LoginLayout
    /\ navbar_style = "none"

\* The Single Month Merger page is on screen, with the navbar, in a
\* signed-in session.
MergerShown ==
    /\ ~ display_pending
    /\ page_content = MergerLayout
    /\ navbar_style = "block"
    /\ login_status = Some([logged_in |-> TRUE])

====
